---- MODULE Spec2Model ----
(***************************************************************************)
(* Model of the LangGraph backend of svelte-langserve:                     *)
(*   - GraphManager (assistant_manager.py): the assistant registry,        *)
(*     built once when the module is imported;                             *)
(*   - the FastAPI handlers of app.py that use it: invoke_assistant and    *)
(*     the health endpoint;                                                *)
(*   - the chatbot graph (graphs/chatbot_graph.py), stateless and compiled *)
(*     with a checkpointer.                                                *)
(* Python's None is the string None; message texts, thread ids and         *)
(* exception texts are strings; a formatted text (an f-string) is the      *)
(* tuple of its parts.                                                     *)
(***************************************************************************)
EXTENDS Integers, Sequences, FiniteSets, TLC

VARIABLES
    boot,               \* import of assistant_manager.py: building, serving, failed
    build_error,        \* the exception logged by _initialize_assistants, or None
    assistants,         \* GraphManager.assistants: id -> compiled graph
    assistant_metadata, \* GraphManager.assistant_metadata: id -> metadata dict
    store,              \* the checkpointer's storage: thread id -> saved graph state
    req,                \* the invoke_assistant calls in flight, one per slot
    history,            \* per thread, the messages of the turns completed on it
    invocations,        \* number of invoke_assistant calls started so far
    listed,             \* the mapping a caller got from list_assistants
    health_status,      \* the last GraphManager.health_check by a caller: whether
                        \* one returned, and the mapping it returned
    health_response,    \* the body returned by the last GET /health
    lookup,             \* the last get_assistant and get_assistant_metadata calls
                        \* of a caller: the id asked for and the value returned
    http,               \* the last HTTP exchange answered without entering
                        \* invoke_assistant: endpoint, token, id, status, body
    call,               \* the last direct call of a function of the package:
                        \* its name, its arguments and what it returned
    environ,            \* os.environ of the process: name -> value, a value
                        \* being the sequence of its characters
    world               \* what lies outside the process: whether the module
                        \* langgraph.checkpoint.postgres can be imported and
                        \* whether the database answers

vars == <<boot, build_error, assistants, assistant_metadata, store, req,
          history, invocations, listed, health_status, health_response,
          lookup, http, call, environ, world>>

\* os.getenv(name, default) on os.environ.
getenv(name, default) ==
    IF name \in DOMAIN environ THEN environ[name] ELSE default

None == "None"

\* str.lower() on the letters, character by character.
UpperCase == <<"A", "B", "C", "D", "E", "F", "G", "H", "I", "J", "K", "L", "M",
               "N", "O", "P", "Q", "R", "S", "T", "U", "V", "W", "X", "Y", "Z">>
LowerCase == <<"a", "b", "c", "d", "e", "f", "g", "h", "i", "j", "k", "l", "m",
               "n", "o", "p", "q", "r", "s", "t", "u", "v", "w", "x", "y", "z">>
LowerChar(c) ==
    IF \E i \in 1..Len(UpperCase) : UpperCase[i] = c
    THEN LowerCase[CHOOSE i \in 1..Len(UpperCase) : UpperCase[i] = c]
    ELSE c
Lower(text) == [i \in 1..Len(text) |-> LowerChar(text[i])]

\* str.startswith(prefix).
StartsWith(text, prefix) ==
    /\ Len(text) >= Len(prefix)
    /\ SubSeq(text, 1, Len(prefix)) = prefix

\* config.py: settings.TESTING and settings.USE_IN_MEMORY_DB, each
\* os.getenv(name, "false").lower() == "true".
settings ==
    [TESTING |->
         Lower(getenv("TESTING", <<"f", "a", "l", "s", "e">>))
             = <<"t", "r", "u", "e">>,
     USE_IN_MEMORY_DB |->
         Lower(getenv("USE_IN_MEMORY_DB", <<"f", "a", "l", "s", "e">>))
             = <<"t", "r", "u", "e">>]

\* A production environment: a real OpenAI key, nothing else set.
ProductionEnviron == "OPENAI_API_KEY" :> <<"s", "k", "-", "1">>

\* The same with the in-memory checkpointer asked for.
InMemoryEnviron ==
    ("OPENAI_API_KEY" :> <<"s", "k", "-", "1">>)
        @@ ("USE_IN_MEMORY_DB" :> <<"t", "r", "u", "e">>)

\* The world outside: whether langgraph.checkpoint.postgres can be imported
\* and whether PostgresSaver.from_conn_string reaches the database.
Worlds == [importable : BOOLEAN, reachable : BOOLEAN]
DatabaseUp == [importable |-> TRUE, reachable |-> TRUE]

----------------------------------------------------------------------------
(* Bounds of the model *)

MaxInvokes == 2
NumSlots == 2

Slots == 1..NumSlots

----------------------------------------------------------------------------
(* The registry: GraphManager.__init__ and _initialize_assistants *)

BuildOrder ==
    <<"chatbot", "chatbot-persistent", "code-assistant",
      "creative-writer", "data-analyst", "research-assistant">>

AssistantIds == {BuildOrder[i] : i \in 1..Len(BuildOrder)}

\* What dict.get gives for a key that is absent (None), in the shape of a
\* compiled graph and of a metadata dict.  `metadata or {}` turns the absent
\* metadata into the empty dict, whose .get("supports_persistence") is None,
\* which is falsy.
NoGraph ==
    [graph |-> None, checkpointer |-> FALSE, nodes |-> "ok", saver |-> None,
     conn |-> None]
NoMetadata ==
    [name |-> None, type |-> None, supports_streaming |-> FALSE,
     supports_persistence |-> FALSE, has_tools |-> "absent"]

\* database.py: the checkpointer of the persistent chatbot.
ConnectError == "connection refused"

\* What one run of the generator does: the stores it yields, whether it
\* contacted PostgreSQL, what it raised, and whether leaving the with block
\* closes the connection of the store it yielded.
ContextRun(yielded, contacted, raised, closes) ==
    [yielded |-> yielded, contacted |-> contacted, raised |-> raised,
     closes |-> closes]

\* (create_checkpointer_context_fallback: an except clause that yields a
\* MemorySaver whenever PostgreSQL cannot be reached.)
create_checkpointer_context_fallback ==
    IF settings.TESTING \/ settings.USE_IN_MEMORY_DB
    THEN ContextRun(<<"memory">>, FALSE, None, FALSE)
    ELSE IF ~world.importable
    THEN ContextRun(<<"memory">>, FALSE, None, FALSE)
    ELSE IF ~world.reachable
    THEN ContextRun(<<"memory">>, TRUE, None, FALSE)
    ELSE ContextRun(<<"postgres">>, TRUE, None, TRUE)

\* create_checkpointer_context.  The PostgresSaver is yielded inside
\* "with PostgresSaver.from_conn_string(...)": when the caller leaves its
\* own with block the generator resumes and that inner with closes the
\* connection.
create_checkpointer_context ==
    IF settings.TESTING \/ settings.USE_IN_MEMORY_DB
    THEN ContextRun(<<"memory">>, FALSE, None, FALSE)
    ELSE IF ~world.importable
    THEN ContextRun(<<"memory">>, FALSE, None, FALSE)
    ELSE IF ~world.reachable
    THEN IF settings.TESTING
         THEN ContextRun(<<"memory">>, TRUE, None, FALSE)
         ELSE ContextRun(<<>>, TRUE, ConnectError, FALSE)
    ELSE ContextRun(<<"postgres">>, TRUE, None, TRUE)

\* create_chatbot_graph_with_checkpointing: "with create_checkpointer_context()
\* as checkpointer: return workflow.compile(checkpointer=checkpointer)".  The
\* return leaves the with block, so the graph returned holds the store as
\* the context manager's exit left it.
create_chatbot_graph_with_checkpointing ==
    LET ctx == create_checkpointer_context
    IN  IF ctx.raised # None
        THEN [raised |-> ctx.raised, graph |-> NoGraph]
        ELSE [raised |-> None,
              graph |-> [graph        |-> "chatbot-persistent",
                         checkpointer |-> TRUE,
                         nodes        |-> "ok",
                         saver        |-> ctx.yielded[1],
                         conn         |-> IF ctx.yielded[1] = "memory"
                                          THEN None
                                          ELSE IF ctx.closes THEN "closed"
                                          ELSE "open"]]

\* The compiled graph each create_*_graph call returns.  Only
\* create_chatbot_graph_with_checkpointing compiles with a checkpointer.
\* nodes is what reading graph.nodes does: "ok", "absent" (no such
\* attribute) or the text of the exception it raises.  saver is the kind
\* of checkpointer compiled in and conn the state of its connection; a
\* MemorySaver has no connection.
CompiledGraph(id) ==
    IF id = "chatbot-persistent"
    THEN create_chatbot_graph_with_checkpointing.graph
    ELSE [graph        |-> id,
          checkpointer |-> FALSE,
          nodes        |-> "ok",
          saver        |-> None,
          conn         |-> None]

\* The metadata dict _initialize_assistants stores for each assistant.
Metadata(id) ==
    [name |-> CASE id = "chatbot"            -> "General Chatbot"
                [] id = "chatbot-persistent" -> "Persistent Chatbot"
                [] id = "code-assistant"     -> "Code Assistant"
                [] id = "creative-writer"    -> "Creative Writer"
                [] id = "data-analyst"       -> "Data Analyst"
                [] OTHER                     -> "Research Assistant",
     type |-> "chat",
     supports_streaming   |-> TRUE,
     supports_persistence |-> (id = "chatbot-persistent"),
     has_tools |-> IF id \in {"data-analyst", "research-assistant"}
                   THEN "True" ELSE "absent"]

\* The two dicts after the first n blocks of _initialize_assistants ran.
InitializedIds(n) == {BuildOrder[i] : i \in 1..n}
AssistantsAfter(n) == [id \in InitializedIds(n) |-> CompiledGraph(id)]

\* (MetadataAfter_lagging: the metadata of a block stored only when the
\* next block starts.)
MetadataAfter_lagging(n) == [id \in InitializedIds(n - 1) |-> Metadata(id)]

MetadataAfter(n) == [id \in InitializedIds(n) |-> Metadata(id)]

\* (OnBuildException_swallowed: an except clause that logs and does not
\* re-raise.)
\* What the except clause of _initialize_assistants leaves of the import:
\* it logs and re-raises, so GraphManager() raises and the module-level
\* name assistant_manager is never bound.
OnBuildException_swallowed == "serving"
OnBuildException == "failed"

\* (get_assistant_fallback: a lookup that falls back to the default chatbot.)
get_assistant_fallback(assistant_id) ==
    IF assistant_id \in DOMAIN assistants
    THEN assistants[assistant_id] ELSE assistants["chatbot"]

\* self.assistants.get(assistant_id)
get_assistant(assistant_id) ==
    IF assistant_id \in DOMAIN assistants
    THEN assistants[assistant_id] ELSE NoGraph

\* (get_assistant_metadata_default: a lookup with the chatbot's metadata as
\* the default of dict.get.)
get_assistant_metadata_default(assistant_id) ==
    IF assistant_id \in DOMAIN assistant_metadata
    THEN assistant_metadata[assistant_id] ELSE assistant_metadata["chatbot"]

\* self.assistant_metadata.get(assistant_id)
get_assistant_metadata(assistant_id) ==
    IF assistant_id \in DOMAIN assistant_metadata
    THEN assistant_metadata[assistant_id] ELSE NoMetadata

----------------------------------------------------------------------------
(* The chatbot graph: ChatbotState, chatbot_node, and its execution with   *)
(* and without a checkpointer                                              *)

HumanMessage(content) == [type |-> "human", content |-> content]
AIMessage(content) == [type |-> "ai", content |-> content]

\* ChatbotState before anything was written to it.
EmptyState == [messages |-> <<>>, response |-> None]

\* ChatbotState declares messages as a plain List[BaseMessage], with no
\* reducer: the graph's input REPLACES the value of the key, also when a
\* saved state of the thread was loaded first.
ApplyInput(saved, input_data) ==
    [saved EXCEPT !.messages = input_data.messages]

\* chatbot_node: the model's answer is appended to the messages it was
\* given and is also the response.
chatbot_node(state, response_content) ==
    [messages |-> state.messages \o <<AIMessage(response_content)>>,
     response |-> response_content]

\* (CheckpointKey_shared: one key for every thread.)
CheckpointKey_shared(thread_id) == "t1"

\* The key under which the checkpointer files a state: the thread_id of the
\* RunnableConfig.
CheckpointKey(thread_id) == thread_id

\* A graph compiled with a checkpointer refuses a call without a
\* configurable thread_id.
CheckpointerConfigError ==
    "Checkpointer requires one or more of the following 'configurable' keys: ['thread_id']"

\* What a PostgresSaver raises when its connection was closed.
ConnectionClosed == "the connection is closed"

----------------------------------------------------------------------------
(* invoke_assistant *)

\* (Truthy_isNotNone: the test "thread_id is not None".)
Truthy_isNotNone(x) == x # None

\* bool(x) of an Optional[str]
Truthy(x) == x # None /\ x # ""

\* (DispatchScoped_anyAssistant: the condition without the metadata test.)
DispatchScoped_anyAssistant(thread_id, metadata) == Truthy(thread_id)

\* The condition of the if at app.py:262.
DispatchScoped(thread_id, metadata) ==
    Truthy(thread_id) /\ metadata.supports_persistence

NoResponse ==
    [status |-> 0, detail |-> <<>>, response |-> None,
     thread_id |-> None, assistant_id |-> None]

\* raise HTTPException(status_code=..., detail=...)
HTTPException(status_code, detail) ==
    [NoResponse EXCEPT !.status = status_code, !.detail = detail]

\* (InvocationFailed_generic: a 500 that drops the exception's text.)
InvocationFailed_generic(e) ==
    HTTPException(500, <<"Assistant invocation failed">>)

\* The except clause of invoke_assistant.
InvocationFailed(e) ==
    HTTPException(500, <<"Assistant invocation failed: ", e>>)

\* (AssistantResponse_noEcho: a response that leaves thread_id out.)
AssistantResponse_noEcho(result, thread_id, assistant_id) ==
    [NoResponse EXCEPT
        !.status = 200,
        !.response = IF result.response = None THEN "" ELSE result.response,
        !.assistant_id = assistant_id]

\* return AssistantResponse(response=result.get("response", ""), ...)
AssistantResponse(result, thread_id, assistant_id) ==
    [NoResponse EXCEPT
        !.status = 200,
        !.response = IF result.response = None THEN "" ELSE result.response,
        !.thread_id = thread_id,
        !.assistant_id = assistant_id]

\* No get_assistant and no get_assistant_metadata call was made yet.
NoLookup ==
    [assistant |-> [called |-> FALSE, id |-> None, value |-> NoGraph],
     metadata  |-> [called |-> FALSE, id |-> None, value |-> NoMetadata]]

\* No function was called directly yet.
NoCall == [fn |-> None, arg |-> <<>>, result |-> <<>>]

\* No HTTP exchange was answered yet.
NoHttp ==
    [endpoint |-> None, token |-> None, id |-> None, status |-> 0,
     body |-> <<>>]

\* A slot in which no call is running.  calls counts the ainvoke calls the
\* handler made for the request.
IdleReq ==
    [pc |-> "idle", assistant_id |-> None, message |-> None,
     thread_id |-> None, called |-> FALSE, calls |-> 0, config |-> None,
     state |-> EmptyState, prior |-> <<>>, exc |-> None,
     resp |-> NoResponse, phase |-> "start", pending |-> 0]


\* The values requests are made of.
RequestIds == {"chatbot", "chatbot-persistent", "chatbot-invalid"}
MessageValues == {"", "m1"}
ThreadIdValues == {None, "", "t1", "t2"}
StoreKeys == ThreadIdValues \ {None}
ModelReplies == {"", "r1"}
ModelErrors == {"Connection timeout"}

\* (Admitted_perThreadLock: a router that holds a thread-scoped call back
\* while another call on the same thread id is inside the worker.)
Admitted_perThreadLock(s, thread_id) ==
    \A o \in Slots \ {s} :
        ~(req[o].pc = "node" /\ Truthy(thread_id)
          /\ req[o].thread_id = thread_id)

\* What invoke_assistant waits for before it awaits assistant.ainvoke:
\* nothing.  It takes no lock and keeps no queue, so the calls in flight
\* never hold a new call back.
Admitted(s, thread_id) == TRUE

\* checkpointer.put: file the state under the thread's key.
PutCheckpoint(st, thread_id, state) ==
    [st EXCEPT ![CheckpointKey(thread_id)] = state]

\* invoke_assistant from its first line to the await inside
\* assistant.ainvoke: the 404 of an unknown id, the choice of the dispatch
\* mode, and the graph's start (a graph with a checkpointer loads the
\* thread's saved state, applies the input and saves the result as the
\* input checkpoint; without a thread_id it raises).
invoke_assistant(s, assistant_id, message, thread_id) ==
    /\ boot = "serving"
    /\ req[s].pc = "idle"
    /\ invocations < MaxInvokes
    /\ Admitted(s, thread_id)
    /\ invocations' = invocations + 1
    /\ LET assistant == get_assistant(assistant_id)
           metadata == get_assistant_metadata(assistant_id)
           input_data == [messages |-> <<HumanMessage(message)>>]
           config == IF DispatchScoped(thread_id, metadata)
                     THEN thread_id ELSE None
           r == [IdleReq EXCEPT !.assistant_id = assistant_id,
                                !.message = message,
                                !.thread_id = thread_id]
       IN  IF assistant.graph = None
           THEN /\ req' = [req EXCEPT ![s] =
                    [r EXCEPT !.pc = "done",
                              !.resp = HTTPException(404,
                                  <<"Assistant ", assistant_id, " not found">>)]]
                /\ UNCHANGED store
           ELSE IF assistant.checkpointer /\ config = None
           THEN /\ req' = [req EXCEPT ![s] =
                    [r EXCEPT !.pc = "done", !.called = TRUE, !.calls = 1,
                              !.exc = CheckpointerConfigError,
                              !.resp = InvocationFailed(CheckpointerConfigError)]]
                /\ UNCHANGED store
           ELSE IF assistant.checkpointer /\ assistant.conn = "closed"
           THEN /\ req' = [req EXCEPT ![s] =
                    [r EXCEPT !.pc = "done", !.called = TRUE, !.calls = 1,
                              !.config = config,
                              !.exc = ConnectionClosed,
                              !.resp = InvocationFailed(ConnectionClosed)]]
                /\ UNCHANGED store
           ELSE IF assistant.checkpointer
           THEN LET state == ApplyInput(store[CheckpointKey(config)], input_data)
                IN  /\ req' = [req EXCEPT ![s] =
                        [r EXCEPT !.pc = "node", !.called = TRUE, !.calls = 1,
                                  !.config = config, !.state = state,
                                  !.prior = history[config]]]
                    /\ store' = PutCheckpoint(store, config, state)
           ELSE /\ req' = [req EXCEPT ![s] =
                    [r EXCEPT !.pc = "node", !.called = TRUE, !.calls = 1,
                              !.config = config,
                              !.state = ApplyInput(EmptyState, input_data)]]
                /\ UNCHANGED store
    /\ UNCHANGED <<world, environ, boot, build_error, assistants, assistant_metadata, history,
                   listed, health_status, health_response, lookup>>

\* A request for POST /assistants/{assistant_id}/invoke reaches the handler.
InvokeStart(s, assistant_id, message, thread_id) ==
    /\ invoke_assistant(s, assistant_id, message, thread_id)
    /\ UNCHANGED <<world, environ, http, call>>

\* The model answers: chatbot_node returns, the graph saves the new state
\* of the thread when it has a checkpointer, and invoke_assistant returns
\* the AssistantResponse.
NodeReturn(s, response_content) ==
    /\ req[s].pc = "node"
    /\ LET r == req[s]
           result == chatbot_node(r.state, response_content)
           saves == get_assistant(r.assistant_id).checkpointer
                    /\ r.config # None
       IN  /\ req' = [req EXCEPT ![s] =
                [r EXCEPT !.pc = "done", !.state = result,
                          !.resp = AssistantResponse(result, r.thread_id,
                                                     r.assistant_id)]]
           /\ store' = IF saves THEN PutCheckpoint(store, r.config, result)
                       ELSE store
           /\ history' = IF saves
                         THEN [history EXCEPT ![r.config] =
                                 @ \o <<HumanMessage(r.message),
                                        AIMessage(response_content)>>]
                         ELSE history
    /\ UNCHANGED <<world, environ, boot, build_error, assistants, assistant_metadata,
                   invocations, listed, health_status, health_response, lookup, http, call>>

\* (NodeRaise_retry: a handler that calls ainvoke a second time when the
\* first call raised.)
NodeRaise_retry(s, e) ==
    /\ req[s].pc = "node"
    /\ req' = [req EXCEPT ![s] =
            IF @.calls < 2
            THEN [@ EXCEPT !.calls = @ + 1]
            ELSE [@ EXCEPT !.pc = "done", !.exc = e,
                           !.resp = InvocationFailed(e)]]
    /\ UNCHANGED <<world, environ, boot, build_error, assistants, assistant_metadata, store,
                   history, invocations, listed, health_status,
                   health_response, lookup, http, call>>

\* The model call raises inside chatbot_node: the exception leaves
\* ainvoke and reaches the except clause of invoke_assistant.
NodeRaise(s, e) ==
    /\ req[s].pc = "node"
    /\ req' = [req EXCEPT ![s] =
            [@ EXCEPT !.pc = "done", !.exc = e, !.resp = InvocationFailed(e)]]
    /\ UNCHANGED <<world, environ, boot, build_error, assistants, assistant_metadata, store,
                   history, invocations, listed, health_status,
                   health_response, lookup, http, call>>

\* The response has been sent; the slot is free for the next request.
Deliver(s) ==
    /\ req[s].pc = "done"
    /\ req' = [req EXCEPT ![s] = IdleReq]
    /\ UNCHANGED <<world, environ, boot, build_error, assistants, assistant_metadata, store,
                   history, invocations, listed, health_status,
                   health_response, lookup, http, call>>

----------------------------------------------------------------------------
(* Import of assistant_manager.py: assistant_manager = GraphManager() *)

BuildFailure == "worker construction failed"

\* GraphManager() at import.  failAt is the block of _initialize_assistants
\* whose create_*_graph call raises, 0 when none does.
BuildTo(failAt) ==
    /\ boot = "building"
    /\ LET made == create_chatbot_graph_with_checkpointing
           refused == made.raised # None /\ failAt \notin {1, 2}
           at == IF refused THEN 2 ELSE failAt
       IN  IF at = 0
           THEN /\ assistants' = AssistantsAfter(Len(BuildOrder))
                /\ assistant_metadata' = MetadataAfter(Len(BuildOrder))
                /\ boot' = "serving"
                /\ UNCHANGED build_error
           ELSE /\ assistants' = AssistantsAfter(at - 1)
                /\ assistant_metadata' = MetadataAfter(at - 1)
                /\ build_error' = IF refused THEN made.raised
                                  ELSE BuildFailure
                /\ boot' = OnBuildException
    /\ UNCHANGED <<world, environ, store, req, history, invocations, listed,
                   health_status, health_response, lookup, http>>

Build(failAt) == BuildTo(failAt) /\ UNCHANGED call

NoHealth == [status |-> None, assistants |-> <<>>, assistant_health |-> <<>>]

\* The process at the import of assistant_manager, started in the given
\* environment and world.
InitIn(env, w) ==
    /\ environ = env
    /\ world = w
    /\ boot = "building"
    /\ build_error = None
    /\ assistants = <<>>
    /\ assistant_metadata = <<>>
    /\ store = [t \in StoreKeys |-> EmptyState]
    /\ req = [s \in Slots |-> IdleReq]
    /\ history = [t \in StoreKeys |-> <<>>]
    /\ invocations = 0
    /\ listed = [held |-> FALSE, entries |-> <<>>]
    /\ health_status = [returned |-> FALSE, value |-> <<>>]
    /\ health_response = NoHealth
    /\ lookup = NoLookup
    /\ http = NoHttp
    /\ call = NoCall

\* The server started with USE_IN_MEMORY_DB=true, or in production with the
\* database up.
Init ==
    \E env \in {InMemoryEnviron, ProductionEnviron} : InitIn(env, DatabaseUp)

Next ==
    \/ \E failAt \in 0..Len(BuildOrder) : Build(failAt)
    \/ \E s \in Slots, a \in RequestIds, m \in MessageValues,
          t \in ThreadIdValues : InvokeStart(s, a, m, t)
    \/ \E s \in Slots, c \in ModelReplies : NodeReturn(s, c)
    \/ \E s \in Slots, e \in ModelErrors : NodeRaise(s, e)
    \/ \E s \in Slots : Deliver(s)

Spec == Init /\ [][Next]_vars


----------------------------------------------------------------------------
(* Claims about invoke_assistant and the registry's construction *)

\* a is a subsequence of b: the elements of a occur in b in the same order.
RECURSIVE IsSubseq(_, _)
IsSubseq(a, b) ==
    IF a = <<>> THEN TRUE
    ELSE IF b = <<>> THEN FALSE
    ELSE IF Head(a) = Head(b) THEN IsSubseq(Tail(a), Tail(b))
    ELSE IsSubseq(a, Tail(b))

Range(f) == {f[i] : i \in DOMAIN f}

\* The call in slot s is inside the worker, dispatched with a thread scope.
Scoped(s) == req[s].called /\ req[s].config # None

\* C1: on chatbot-persistent, the message list the worker's model gets in a
\* thread-scoped invoke on thread T contains the human messages and AI
\* replies of the turns completed on T before the invoke began, in turn
\* order, followed by the new message.
C1_HistoryHandedToModel ==
    \A s \in Slots :
        (req[s].pc = "node" /\ req[s].assistant_id = "chatbot-persistent"
            /\ Scoped(s))
        => IsSubseq(req[s].prior \o <<HumanMessage(req[s].message)>>,
                    req[s].state.messages)

\* C2: a thread-scoped invocation on thread T2 gives the worker only
\* messages of T2 (the request's own message or messages of turns completed
\* on T2), and the saved state of a thread T1 changes only in a step of an
\* invocation on T1.
C2_SeesOnlyOwnThread ==
    \A s \in Slots :
        (req[s].pc = "node" /\ Scoped(s))
        => \A i \in DOMAIN req[s].state.messages :
              \/ req[s].state.messages[i] = HumanMessage(req[s].message)
              \/ req[s].state.messages[i] \in Range(history[req[s].config])

C2_OtherThreadsUntouched ==
    \A t \in StoreKeys :
        store'[t] # store[t]
        => \E s \in Slots :
              /\ req'[s] # req[s]
              /\ (req[s].thread_id = t \/ req'[s].thread_id = t)

C2_ThreadIsolation ==
    [](C2_SeesOnlyOwnThread) /\ [][C2_OtherThreadsUntouched]_vars

C2_Witness ==
    \E s \in Slots :
        /\ req[s].pc = "done" /\ req[s].resp.status = 200
        /\ req[s].config = "t2"
        /\ store["t2"].messages # <<>>
        /\ history["t1"] # <<>>
        /\ store["t1"].messages # store["t2"].messages

\* C3 as stated: the worker is called with a thread scope exactly when the
\* request carries a thread id (thread_id is not None) and the descriptor's
\* supports_persistence is true.
C3_ScopedIffThreadIdPresent ==
    \A s \in Slots :
        req[s].called
        => /\ Scoped(s) <=>
                (req[s].thread_id # None
                 /\ get_assistant_metadata(req[s].assistant_id)
                        .supports_persistence)
           /\ Scoped(s) => req[s].config = req[s].thread_id

\* C3 amended: the worker is called with a thread scope, whose thread_id is
\* the request's, exactly when the request's thread id is a non-empty
\* string and the descriptor's supports_persistence is true; otherwise it
\* is called with no thread scope.
C3_ScopedIffNonEmptyThreadId ==
    \A s \in Slots :
        req[s].called
        => /\ Scoped(s) <=>
                (req[s].thread_id \notin {None, ""}
                 /\ get_assistant_metadata(req[s].assistant_id)
                        .supports_persistence)
           /\ Scoped(s) => req[s].config = req[s].thread_id
           /\ ~Scoped(s) => req[s].config = None
           /\ req[s].assistant_id # "chatbot-persistent" => ~Scoped(s)

C3_Witness ==
    \E s1, s2 \in Slots :
        /\ Scoped(s1) /\ req[s1].config = "t1"
        /\ req[s2].called /\ req[s2].assistant_id = "chatbot"
        /\ req[s2].thread_id = "t1" /\ ~Scoped(s2)

\* C4: an invoke on a registered assistant with the empty message ends with
\* status 400 and the worker is not called.
C4_EmptyMessageRejected ==
    \A s \in Slots :
        (req[s].pc # "idle" /\ req[s].assistant_id \in DOMAIN assistants
            /\ req[s].message = "")
        => (req[s].pc = "done" /\ req[s].resp.status = 400
            /\ ~req[s].called)

\* C5: an invoke with an id that is not in the registry ends with status
\* 404, whatever the message, and no worker is called.
C5_UnknownAssistantNotFound ==
    \A s \in Slots :
        (req[s].pc # "idle" /\ req[s].assistant_id \notin DOMAIN assistants)
        => /\ req[s].pc = "done"
           /\ req[s].resp.status = 404
           /\ req[s].resp.detail =
                <<"Assistant ", req[s].assistant_id, " not found">>
           /\ ~req[s].called

C5_Witness ==
    \E s \in Slots :
        /\ req[s].pc = "done" /\ req[s].assistant_id = "chatbot-invalid"
        /\ req[s].message = "" /\ req[s].resp.status = 404

\* C6: when the worker call raised, with or without thread scope, the
\* invoke ends with status 500, a detail that ends with the exception's
\* message, and no success body.
C6_WorkerFaultIsInvocationFailed ==
    \A s \in Slots :
        req[s].exc # None
        => /\ req[s].pc = "done"
           /\ req[s].resp.status = 500
           /\ Len(req[s].resp.detail) = 2
           /\ req[s].resp.detail[2] = req[s].exc
           /\ req[s].resp.response = None

C6_Witness ==
    \E s1, s2 \in Slots :
        /\ req[s1].exc \in ModelErrors /\ Scoped(s1)
        /\ req[s2].exc \in ModelErrors /\ req[s2].called /\ ~Scoped(s2)

\* C10: when the construction of a worker raised, the import failed and no
\* manager is bound; requests are served only by a manager that holds all
\* six assistants.
C10_NoPartialRegistryServes ==
    /\ build_error # None => boot = "failed"
    /\ boot = "serving" =>
          /\ DOMAIN assistants = AssistantIds
          /\ DOMAIN assistant_metadata = AssistantIds
    /\ \A s \in Slots :
          req[s].pc # "idle"
          => boot = "serving" /\ DOMAIN assistants = AssistantIds

C10_Witness ==
    /\ boot = "failed" /\ build_error = BuildFailure
    /\ DOMAIN assistants # {} /\ DOMAIN assistants # AssistantIds


\* C13: a successful invoke echoes the request's thread id (None when the
\* request had none), thread-scoped or not, and carries the requested
\* assistant id; on an assistant without persistence a thread id causes no
\* error (only the model's own faults fail the call).
C13_ThreadIdEchoed ==
    \A s \in Slots :
        /\ (req[s].pc = "done" /\ req[s].resp.status = 200)
           => /\ req[s].resp.thread_id = req[s].thread_id
              /\ req[s].resp.assistant_id = req[s].assistant_id
        /\ (req[s].pc # "idle" /\ req[s].assistant_id = "chatbot")
           => /\ req[s].called
              /\ req[s].exc \in {None} \cup ModelErrors

C13_Witness ==
    \E s \in Slots :
        /\ req[s].pc = "done" /\ req[s].resp.status = 200
        /\ req[s].assistant_id = "chatbot" /\ ~Scoped(s)
        /\ req[s].thread_id = "t1" /\ req[s].resp.thread_id = "t1"

\* C14: a call dispatched without thread scope hands the worker exactly one
\* message, the request's, and completes as a stateless call, also on
\* chatbot-persistent.
C14_StatelessDispatchCompletes ==
    \A s \in Slots :
        (req[s].called /\ ~Scoped(s))
        => /\ req[s].exc # CheckpointerConfigError
           /\ Len(req[s].state.messages) >= 1
           /\ req[s].state.messages[1] = HumanMessage(req[s].message)
           /\ req[s].pc = "node" => Len(req[s].state.messages) = 1

\* C16: a request that passes the lookup calls the worker exactly once,
\* also when the call raises, a request that does not pass it never calls
\* it, and a thread's history grows by one turn at a time, in the step in
\* which a call returns.
C16_OneCallPerRequest ==
    \A s \in Slots :
        req[s].pc # "idle"
        => req[s].calls =
              IF req[s].assistant_id \in DOMAIN assistants THEN 1 ELSE 0

C16_OneTurnPerReturn ==
    \A t \in StoreKeys :
        history'[t] # history[t]
        => /\ Len(history'[t]) = Len(history[t]) + 2
           /\ \E s \in Slots :
                 /\ req[s].pc = "node" /\ req'[s].pc = "done"
                 /\ req[s].config = t

C16_NoRetry == [](C16_OneCallPerRequest) /\ [][C16_OneTurnPerReturn]_vars

C16_Witness ==
    \E s \in Slots :
        /\ req[s].pc = "done" /\ req[s].exc \in ModelErrors
        /\ req[s].resp.status = 500 /\ req[s].calls = 1

\* C17: the router never holds a call back because of the calls in flight:
\* a free slot can always begin a thread-scoped call on any thread id, and
\* a call inside the worker can always return, whatever the other slots
\* are doing.
C17_NoPerThreadSerialization ==
    \A s \in Slots :
        /\ (boot = "serving" /\ req[s].pc = "idle"
               /\ invocations < MaxInvokes)
           => \A t \in {"t1", "t2"} :
                 ENABLED InvokeStart(s, "chatbot-persistent", "m1", t)
        /\ req[s].pc = "node" => ENABLED NodeReturn(s, "r1")

C17_Witness ==
    \E s1, s2 \in Slots :
        /\ s1 # s2
        /\ req[s1].pc = "node" /\ req[s2].pc = "node"
        /\ Scoped(s1) /\ Scoped(s2)
        /\ req[s1].config = "t1" /\ req[s2].config = "t1"

\* C20: a success body carries the response text of the worker's result
\* together with the thread id echo and the assistant id, and a result
\* without response text is never answered as a success with an empty
\* response.
C20_SuccessBodyComplete ==
    \A s \in Slots :
        (req[s].pc = "done" /\ req[s].resp.status = 200)
        => /\ req[s].resp.response = req[s].state.response
           /\ req[s].resp.thread_id = req[s].thread_id
           /\ req[s].resp.assistant_id = req[s].assistant_id
           /\ req[s].resp.response # ""

----------------------------------------------------------------------------
(* In-process callers of GraphManager.list_assistants *)

\* list_assistants: self.assistant_metadata.copy() is a shallow copy, a new
\* dict that maps each id to the SAME metadata dict object the registry
\* holds.  An entry of the returned mapping is the name of that object: the
\* id under which the registry holds it.
list_assistants == [id \in DOMAIN assistant_metadata |-> id]

\* A caller calls assistant_manager.list_assistants() and keeps the result.
ListAssistants ==
    /\ boot = "serving"
    /\ listed' = [held |-> TRUE, entries |-> list_assistants]
    /\ UNCHANGED <<world, environ, boot, build_error, assistants, assistant_metadata, store,
                   req, history, invocations, health_status,
                   health_response, lookup, http, call>>

\* The caller assigns listing[id]["supports_persistence"] = v: a write to
\* the dict object the entry refers to.
CallerSetsField(id, v) ==
    /\ listed.held
    /\ id \in DOMAIN listed.entries
    /\ assistant_metadata' =
          [assistant_metadata EXCEPT
              ![listed.entries[id]].supports_persistence = v]
    /\ UNCHANGED <<world, environ, boot, build_error, assistants, store, req, history,
                   invocations, listed, health_status, health_response, lookup, http, call>>

\* A process whose import of assistant_manager succeeded: the checkpointer
\* of the persistent chatbot was created without an exception.
InitServingIn(env, w) ==
    /\ environ = env
    /\ world = w
    /\ create_chatbot_graph_with_checkpointing.raised = None
    /\ boot = "serving"
    /\ build_error = None
    /\ assistants = AssistantsAfter(Len(BuildOrder))
    /\ assistant_metadata = MetadataAfter(Len(BuildOrder))
    /\ store = [t \in StoreKeys |-> EmptyState]
    /\ req = [s \in Slots |-> IdleReq]
    /\ history = [t \in StoreKeys |-> <<>>]
    /\ invocations = 0
    /\ listed = [held |-> FALSE, entries |-> <<>>]
    /\ health_status = [returned |-> FALSE, value |-> <<>>]
    /\ health_response = NoHealth
    /\ lookup = NoLookup
    /\ http = NoHttp
    /\ call = NoCall

\* The server after a successful import, started with USE_IN_MEMORY_DB=true
\* or in production with the database up.
InitServing ==
    \E env \in {InMemoryEnviron, ProductionEnviron} :
        InitServingIn(env, DatabaseUp)


NextCaller ==
    \/ ListAssistants
    \/ \E id \in {"chatbot", "chatbot-persistent"}, v \in BOOLEAN : CallerSetsField(id, v)
    \/ \E s \in Slots, a \in {"chatbot", "chatbot-persistent"}, t \in {None, "t1"} :
          InvokeStart(s, a, "m1", t)
    \/ \E s \in Slots, c \in ModelReplies : NodeReturn(s, c)
    \/ \E s \in Slots, e \in ModelErrors : NodeRaise(s, e)
    \/ \E s \in Slots : Deliver(s)

SpecCaller == InitServing /\ [][NextCaller]_vars

\* C7: nothing a caller does with the mapping list_assistants returned
\* changes what get_assistant_metadata returns, what a later
\* list_assistants returns, or the dispatch mode invoke_assistant chooses.
C7_RegistryView ==
    [id \in AssistantIds |->
        [descriptor |-> get_assistant_metadata(id),
         listing    |-> assistant_metadata[list_assistants[id]],
         scoped     |-> [t \in ThreadIdValues |->
                            DispatchScoped(t, get_assistant_metadata(id))]]]

C7_CallerCannotChangeRegistry ==
    [][C7_RegistryView' = C7_RegistryView]_vars

----------------------------------------------------------------------------
(* GraphManager.health_check and GET /health *)

\* What reading graph.nodes does to health_check's try block: hasattr
\* swallows an AttributeError (the attribute counts as absent), any other
\* exception leaves the try block.
ProbeRaises(graph) == graph.nodes \notin {"ok", "absent"}

\* (ProbeRecord_noText: an except clause that stores no error text.)
ProbeRecord_noText(graph) ==
    IF ProbeRaises(graph)
    THEN [status |-> "unhealthy", error |-> None]
    ELSE [status |-> "healthy", error |-> None]

\* The body of the for loop of health_check, for one assistant.
ProbeRecord(graph) ==
    IF ProbeRaises(graph)
    THEN [status |-> "unhealthy", error |-> graph.nodes]
    ELSE [status |-> "healthy", error |-> None]

\* (health_check_loop_abort: the try around the whole loop, so that the
\* first probe that raises ends it.)
RECURSIVE health_check_loop_abort(_, _, _)
health_check_loop_abort(graphs, i, health) ==
    IF i > Len(BuildOrder) THEN health
    ELSE IF BuildOrder[i] \notin DOMAIN graphs
    THEN health_check_loop_abort(graphs, i + 1, health)
    ELSE IF ProbeRaises(graphs[BuildOrder[i]])
    THEN (BuildOrder[i] :> ProbeRecord(graphs[BuildOrder[i]])) @@ health
    ELSE health_check_loop_abort(graphs, i + 1,
            (BuildOrder[i] :> ProbeRecord(graphs[BuildOrder[i]])) @@ health)

\* The for loop of health_check over graphs.items(), in insertion order,
\* from position i on, with the records collected so far.
RECURSIVE health_check_loop(_, _, _)
health_check_loop(graphs, i, health) ==
    IF i > Len(BuildOrder) THEN health
    ELSE IF BuildOrder[i] \notin DOMAIN graphs
    THEN health_check_loop(graphs, i + 1, health)
    ELSE health_check_loop(graphs, i + 1,
            (BuildOrder[i] :> ProbeRecord(graphs[BuildOrder[i]])) @@ health)

\* GraphManager.health_check on a manager whose assistants are graphs.
health_check(graphs) == health_check_loop(graphs, 1, <<>>)

\* The keys of a dict in insertion order.
RECURSIVE KeysFrom(_, _)
KeysFrom(d, i) ==
    IF i > Len(BuildOrder) THEN <<>>
    ELSE IF BuildOrder[i] \in DOMAIN d
    THEN <<BuildOrder[i]>> \o KeysFrom(d, i + 1)
    ELSE KeysFrom(d, i + 1)

\* all(status["status"] == "healthy" for status in assistant_health.values())
AllHealthy(assistant_health) ==
    \A id \in DOMAIN assistant_health :
        assistant_health[id].status = "healthy"

\* (OverallStatus_any: any() in place of all().)
OverallStatus_any(assistant_health) ==
    IF \E id \in DOMAIN assistant_health :
          assistant_health[id].status = "healthy"
    THEN "healthy" ELSE "degraded"

\* The overall_status expression of the GET /health handler.
OverallStatus(assistant_health) ==
    IF AllHealthy(assistant_health) THEN "healthy" ELSE "degraded"

\* (HealthCheck_evicting: a health check that drops the graphs it finds
\* unhealthy from the registry.)
HealthCheck_evicting ==
    /\ boot = "serving"
    /\ health_status' =
          [returned |-> TRUE, value |-> health_check(assistants)]
    /\ assistants' =
          [id \in {i \in DOMAIN assistants : ~ProbeRaises(assistants[i])}
              |-> assistants[id]]
    /\ UNCHANGED <<world, environ, boot, build_error, assistant_metadata, store, req,
                   history, invocations, listed, health_response, lookup,
                   http, call>>

\* A caller runs assistant_manager.health_check().
HealthCheck ==
    /\ boot = "serving"
    /\ health_status' = [returned |-> TRUE, value |-> health_check(assistants)]
    /\ UNCHANGED <<world, environ, boot, build_error, assistants, assistant_metadata, store,
                   req, history, invocations, listed, health_response, lookup, http, call>>

\* GET /health
GetHealth ==
    /\ boot = "serving"
    /\ LET assistant_health == health_check(assistants)
       IN  health_response' =
              [status |-> OverallStatus(assistant_health),
               assistants |-> KeysFrom(assistant_health, 1),
               assistant_health |-> assistant_health]
    /\ UNCHANGED <<world, environ, boot, build_error, assistants, assistant_metadata, store,
                   req, history, invocations, listed, health_status, lookup, http, call>>

\* What reading graph.nodes can do.
NodesBehaviours == {"ok", "absent", "", "nodes unavailable"}

\* A serving process whose compiled graphs answer the probe in any way.
InitHealth ==
    /\ environ = InMemoryEnviron
    /\ world = DatabaseUp
    /\ boot = "serving"
    /\ build_error = None
    /\ \E nodes \in [AssistantIds -> NodesBehaviours] :
          assistants = [id \in AssistantIds |->
                           [CompiledGraph(id) EXCEPT !.nodes = nodes[id]]]
    /\ assistant_metadata = MetadataAfter(Len(BuildOrder))
    /\ store = [t \in StoreKeys |-> EmptyState]
    /\ req = [s \in Slots |-> IdleReq]
    /\ history = [t \in StoreKeys |-> <<>>]
    /\ invocations = 0
    /\ listed = [held |-> FALSE, entries |-> <<>>]
    /\ health_status = [returned |-> FALSE, value |-> <<>>]
    /\ health_response = NoHealth
    /\ lookup = NoLookup
    /\ http = NoHttp
    /\ call = NoCall

NextHealth ==
    \/ HealthCheck
    \/ GetHealth

SpecHealth == InitHealth /\ [][NextHealth]_vars

\* The registry with the graph of assistant id answering the probe.
WithProbeOk(id) == [assistants EXCEPT ![id].nodes = "ok"]

\* C8: health_check returns one record for every registered worker; a
\* worker whose probe raises gets an unhealthy record with the exception's
\* message, and every other worker's record is what it would be had that
\* probe not raised.
C8_ProbeFaultsIsolated ==
    health_status.returned
    => /\ DOMAIN health_status.value = DOMAIN assistants
       /\ \A id \in DOMAIN assistants :
             ProbeRaises(assistants[id])
             => /\ health_status.value[id] =
                      [status |-> "unhealthy", error |-> assistants[id].nodes]
                /\ \A other \in DOMAIN assistants \ {id} :
                      health_status.value[other] =
                          health_check(WithProbeOk(id))[other]
       /\ \A id \in DOMAIN assistants :
             ~ProbeRaises(assistants[id])
             => health_status.value[id] =
                   [status |-> "healthy", error |-> None]

C8_Witness ==
    /\ health_status.returned
    /\ health_status.value["chatbot-persistent"].status = "unhealthy"
    /\ health_status.value["chatbot"].status = "healthy"
    /\ health_status.value["research-assistant"].status = "healthy"

\* C9: GET /health reports healthy exactly when the record of every
\* registered worker is healthy, and degraded in every other case.
C9_OverallHealthyIffAllHealthy ==
    health_response.status # None
    => /\ DOMAIN health_response.assistant_health = DOMAIN assistants
       /\ health_response.status = "healthy" <=>
             \A id \in DOMAIN assistants :
                health_response.assistant_health[id].status = "healthy"
       /\ health_response.status # "healthy" =>
             health_response.status = "degraded"

C9_Witness ==
    /\ health_response.status = "degraded"
    /\ Cardinality({id \in DOMAIN health_response.assistant_health :
            health_response.assistant_health[id].status = "unhealthy"}) = 1


----------------------------------------------------------------------------
(* The read operations of GraphManager, called in any order with invokes *)

\* A caller runs assistant_manager.get_assistant(id).
GetAssistant(id) ==
    /\ boot = "serving"
    /\ lookup' = [lookup EXCEPT !.assistant =
                    [called |-> TRUE, id |-> id, value |-> get_assistant(id)]]
    /\ UNCHANGED <<world, environ, boot, build_error, assistants, assistant_metadata, store,
                   req, history, invocations, listed, health_status,
                   health_response, http, call>>

\* (GetAssistantMetadata_setdefault: a lookup by dict.setdefault, which
\* inserts the id it was asked for.)
GetAssistantMetadata_setdefault(id) ==
    /\ boot = "serving"
    /\ lookup' = [lookup EXCEPT !.metadata =
                    [called |-> TRUE, id |-> id,
                     value |-> get_assistant_metadata(id)]]
    /\ assistant_metadata' =
          IF id \in DOMAIN assistant_metadata THEN assistant_metadata
          ELSE (id :> NoMetadata) @@ assistant_metadata
    /\ UNCHANGED <<world, environ, boot, build_error, assistants, store, req, history,
                   invocations, listed, health_status, health_response,
                   http, call>>

\* A caller runs assistant_manager.get_assistant_metadata(id).
GetAssistantMetadata(id) ==
    /\ boot = "serving"
    /\ lookup' = [lookup EXCEPT !.metadata =
                    [called |-> TRUE, id |-> id,
                     value |-> get_assistant_metadata(id)]]
    /\ UNCHANGED <<world, environ, boot, build_error, assistants, assistant_metadata, store,
                   req, history, invocations, listed, health_status,
                   health_response, http, call>>

LookupIds == {"chatbot", "research-assistant", "chatbot-invalid"}

NextOps ==
    \/ \E id \in LookupIds : GetAssistant(id)
    \/ \E id \in LookupIds : GetAssistantMetadata(id)
    \/ ListAssistants
    \/ HealthCheck
    \/ \E s \in Slots, a \in {"chatbot", "chatbot-persistent"},
          t \in {None, "t1"} : InvokeStart(s, a, "m1", t)
    \/ \E s \in Slots, c \in ModelReplies : NodeReturn(s, c)
    \/ \E s \in Slots, e \in ModelErrors : NodeRaise(s, e)
    \/ \E s \in Slots : Deliver(s)

SpecOps == InitServing /\ [][NextOps]_vars

\* C11: whatever get_assistant, get_assistant_metadata, list_assistants,
\* health_check and invoke calls ran, in whatever interleaving, the
\* registry's two mappings are the ones the build produced.
C11_RegistryReadOnly ==
    boot = "serving"
    => /\ DOMAIN assistants = AssistantIds
       /\ assistants = AssistantsAfter(Len(BuildOrder))
       /\ assistant_metadata = MetadataAfter(Len(BuildOrder))

C11_Witness ==
    /\ lookup.assistant.called /\ lookup.metadata.called
    /\ lookup.metadata.id = "chatbot-invalid"
    /\ listed.held /\ health_status.returned
    /\ \E s \in Slots : req[s].pc = "done" /\ req[s].resp.status = 200
    /\ \E s \in Slots : req[s].pc = "node"

\* C12: get_assistant(id) returns a graph exactly when
\* get_assistant_metadata(id) returns a metadata dict, exactly when the
\* build inserted id; what they return is the graph and the metadata of
\* that id, and for any other id both return None.
C12_LookupsAgree ==
    /\ \A id \in AssistantIds \cup LookupIds :
          /\ (get_assistant(id) # NoGraph) <=> (id \in AssistantIds)
          /\ (get_assistant_metadata(id) # NoMetadata) <=> (id \in AssistantIds)
    /\ lookup.assistant.called
       => lookup.assistant.value =
             IF lookup.assistant.id \in AssistantIds
             THEN CompiledGraph(lookup.assistant.id) ELSE NoGraph
    /\ lookup.metadata.called
       => lookup.metadata.value =
             IF lookup.metadata.id \in AssistantIds
             THEN Metadata(lookup.metadata.id) ELSE NoMetadata

C12_Witness ==
    /\ lookup.assistant.called /\ lookup.assistant.id = "chatbot-invalid"
    /\ lookup.assistant.value = NoGraph
    /\ lookup.metadata.called /\ lookup.metadata.id = "research-assistant"
    /\ lookup.metadata.value.has_tools = "True"


\* C18: a health check changes neither the registry nor any request or
\* thread state and starts no worker call; while the workers stay as they
\* are, every health_check returns the mapping the one before returned and
\* every GET /health the body the one before returned, built on the same
\* mapping; a health check can always be run.
C18_HealthStep ==
    /\ assistants' = assistants
    /\ assistant_metadata' = assistant_metadata
    /\ store' = store /\ history' = history
    /\ req' = req /\ invocations' = invocations
    /\ (health_status.returned /\ health_status'.returned)
       => health_status'.value = health_status.value
    /\ (health_response.status # None /\ health_response'.status # None)
       => health_response' = health_response
    /\ (health_status'.returned /\ health_response'.status # None)
       => health_response'.assistant_health = health_status'.value

C18_HealthChecksIdempotent ==
    [](ENABLED HealthCheck /\ ENABLED GetHealth) /\ [][C18_HealthStep]_vars

C18_Witness ==
    /\ health_status.returned
    /\ health_response.status = "degraded"
    /\ health_response.assistant_health = health_status.value
    /\ health_status.value["data-analyst"].status = "unhealthy"
    /\ invocations = 0

----------------------------------------------------------------------------
(* llm.py and testing/mock_llm.py: the client of the model call *)

\* is_test_mode(): read from the environment at every call.
is_test_mode ==
    \/ Lower(getenv("TEST_MODE", <<>>)) \in
           {<<"t", "r", "u", "e">>, <<"1">>, <<"y", "e", "s">>}
    \/ StartsWith(getenv("OPENAI_API_KEY", <<>>),
                  <<"t", "e", "s", "t", "-">>)

\* The timeout= argument of ChatOpenAI and ChatAnthropic, in seconds.
LlmTimeout == 60

\* The mock model is constructed without a timeout and waits for nothing.
NoTimeout == 0

\* ValueError(f"Unknown model type: {model_type}"), kept as its parts.
UnknownModelType(model_type) == <<"Unknown model type: ", model_type>>

\* get_llm(model_type): the client the nodes call the model through, or the
\* ValueError it raises (error, <<>> when it returns a client).
get_llm(model_type) ==
    IF model_type = "openai"
    THEN IF is_test_mode
         THEN [model |-> "gpt-4-mock", timeout |-> NoTimeout, error |-> <<>>]
         ELSE [model |-> "gpt-4", timeout |-> LlmTimeout, error |-> <<>>]
    ELSE IF model_type = "anthropic"
    THEN [model |-> "claude-3-5-sonnet-20241022", timeout |-> LlmTimeout,
          error |-> <<>>]
    ELSE [model |-> None, timeout |-> NoTimeout,
          error |-> UnknownModelType(model_type)]

\* word in user_content.lower(), on the message contents requests are made
\* of in this section: "", "m1", "Code", "story", "data" and "search".
Mentions(user_content, word) ==
    \/ user_content = "Code" /\ word = "code"
    \/ user_content \in {"story", "data", "search"} /\ word = user_content

\* The f-strings of _generate_mock_response on these contents, none of
\* which is longer than the slices.
MockCode ==
    [c \in {"Code"} |->
        "Mock code response: Here's a Python solution for 'Code...'"]
MockCreative ==
    [c \in {"story"} |->
        "Mock creative response: Once upon a time, regarding 'story...'"]
MockData ==
    [c \in {"data"} |->
        "Mock data analysis: Based on your request about 'data...', here are the insights."]
MockResearch ==
    [c \in {"search"} |->
        "Mock research response: I found information about 'search...' from various sources."]
MockAssistant ==
    [c \in {"", "m1"} |->
        IF c = ""
        THEN "Mock assistant response: I understand you're asking about '...'. Here's my helpful response."
        ELSE "Mock assistant response: I understand you're asking about 'm1...'. Here's my helpful response."]

\* MockChatOpenAI._generate_mock_response(messages).
generate_mock_response(messages) ==
    IF messages = <<>> THEN "Mock response: No messages provided"
    ELSE LET user_content == messages[Len(messages)].content
         IN  IF Mentions(user_content, "code")
                \/ Mentions(user_content, "python")
             THEN MockCode[user_content]
             ELSE IF Mentions(user_content, "creative")
                     \/ Mentions(user_content, "story")
             THEN MockCreative[user_content]
             ELSE IF Mentions(user_content, "data")
                     \/ Mentions(user_content, "analyze")
             THEN MockData[user_content]
             ELSE IF Mentions(user_content, "research")
                     \/ Mentions(user_content, "search")
             THEN MockResearch[user_content]
             ELSE MockAssistant[user_content]

\* What the client raises when the model has not answered in time.
APITimeoutError == "Request timed out."

\* What a search that fails raises.
SearchError == "search unavailable"

\* should_search: the conditional entry point of the research assistant.
should_search(state) ==
    LET last_message == state.messages[Len(state.messages)]
        search_indicators ==
            {"current", "latest", "recent", "news", "today", "this year",
             "search", "find", "look up", "what's happening", "update"}
    IN  IF \E indicator \in search_indicators :
               Mentions(last_message.content, indicator)
        THEN "search_and_research" ELSE "knowledge_research"

\* should_use_tools: the conditional entry point of the data analyst.
should_use_tools(state) ==
    LET last_message == state.messages[Len(state.messages)]
        search_indicators ==
            {"current", "latest", "recent", "search", "find data",
             "market research", "trends", "statistics", "up-to-date"}
    IN  IF \E indicator \in search_indicators :
               Mentions(last_message.content, indicator)
        THEN "use_tools" ELSE "analyze_only"

\* The node the graph of the request in slot s runs: the conditional entry
\* point reads the state the graph was called with, whose last message is
\* the message of the request.
NodeOf(s) ==
    LET entry == [messages |-> <<HumanMessage(req[s].message)>>]
    IN  IF req[s].assistant_id = "research-assistant"
        THEN should_search(entry)
        ELSE IF req[s].assistant_id = "data-analyst"
        THEN should_use_tools(entry)
        ELSE "chatbot"

ToolMessage(content) == [type |-> "tool", content |-> content]

\* data_analyst_with_search_node takes its tool path: the key is set.
UsesTools(s) ==
    /\ NodeOf(s) = "use_tools"
    /\ getenv("TAVILY_API_KEY", <<>>) # <<>>

\* The node waits inside search_tool.run (search_and_research_node, its
\* first call) or inside search_tool.invoke (the tool call of
\* data_analyst_with_search_node).
WaitsOnSearch(s) ==
    /\ req[s].pc = "node"
    /\ \/ NodeOf(s) = "search_and_research" /\ req[s].phase = "start"
       \/ req[s].phase = "searching"

\* The model has not answered within the client's timeout: chain.invoke
\* raises in the node and the except clause of invoke_assistant answers.
NodeTimeout(s) ==
    /\ get_llm("openai").timeout > NoTimeout
    /\ ~WaitsOnSearch(s)
    /\ NodeRaise(s, APITimeoutError)

\* The real model answers with the node's last answer, or its client raises.
LlmReturn(s, response_content) ==
    /\ get_llm("openai").model = "gpt-4"
    /\ ~WaitsOnSearch(s)
    /\ NodeReturn(s, response_content)

LlmRaises(s, e) ==
    /\ get_llm("openai").model = "gpt-4"
    /\ ~WaitsOnSearch(s)
    /\ NodeRaise(s, e)

\* The model with the tools bound answers with tool calls, named by their
\* tools: the reply is added to the messages and the for loop over
\* result.tool_calls goes on to search_tool.invoke once for every call of
\* the search tool, or, with no such call, to the final call of the model.
LlmAsksSearch(s, tool_calls) ==
    /\ req[s].pc = "node"
    /\ get_llm("openai").model = "gpt-4"
    /\ UsesTools(s)
    /\ req[s].phase = "start"
    /\ tool_calls # <<>>
    /\ LET searches ==
               Cardinality({i \in 1..Len(tool_calls) :
                              tool_calls[i] = "tavily_search_results_json"})
       IN  req' = [req EXCEPT
                ![s].state.messages = @ \o <<AIMessage("")>>,
                ![s].pending = searches,
                ![s].phase = IF searches > 0 THEN "searching"
                             ELSE "searched"]
    /\ UNCHANGED <<world, environ, boot, build_error, assistants, assistant_metadata,
                   store, history, invocations, listed, health_status,
                   health_response, lookup, http, call>>

\* The search answers, with results or with none.  In
\* data_analyst_with_search_node the results become a ToolMessage and the
\* loop goes on to the next call of the search tool, after the last one to
\* the final call of the model; search_and_research_node puts them into
\* its prompt and goes on to its call of the model.
SearchReturns(s, search_results) ==
    /\ WaitsOnSearch(s)
    /\ IF req[s].phase = "searching"
       THEN req' = [req EXCEPT
                ![s].state.messages = @ \o <<ToolMessage(search_results)>>,
                ![s].pending = @ - 1,
                ![s].phase = IF req[s].pending = 1 THEN "searched"
                             ELSE "searching"]
       ELSE req' = [req EXCEPT ![s].phase = "searched"]
    /\ UNCHANGED <<world, environ, boot, build_error, assistants, assistant_metadata,
                   store, history, invocations, listed, health_status,
                   health_response, lookup, http, call>>

\* The search raises: search_and_research_node catches it and goes on to
\* knowledge_research_node; from data_analyst_with_search_node it reaches
\* the except clause of invoke_assistant.
SearchRaises(s) ==
    /\ WaitsOnSearch(s)
    /\ IF req[s].assistant_id = "research-assistant"
       THEN /\ req' = [req EXCEPT ![s].phase = "searched"]
            /\ UNCHANGED <<world, environ, boot, build_error, assistants,
                           assistant_metadata, store, history, invocations,
                           listed, health_status, health_response, lookup,
                           http, call>>
       ELSE NodeRaise(s, SearchError)

\* The mock answers: _generate computes its answer from the prompt's
\* messages, the last of which is the last message of the state.  (The
\* mock is not used with bound tools in the environments below.)
MockReturn(s) ==
    /\ req[s].pc = "node"
    /\ get_llm("openai").model = "gpt-4-mock"
    /\ ~WaitsOnSearch(s)
    /\ ~UsesTools(s)
    /\ NodeReturn(s, generate_mock_response(req[s].state.messages))

\* A serving process in any of the environments the server is started in.
InitLive ==
    \E env \in
       {ProductionEnviron,
        InMemoryEnviron,
        <<>>,
        [n \in {"OPENAI_API_KEY", "TAVILY_API_KEY"} |->
            IF n = "OPENAI_API_KEY" THEN <<"s", "k", "-", "1">>
            ELSE <<"t", "v", "l", "y">>],
        [n \in {"OPENAI_API_KEY"} |-> <<"t", "e", "s", "t", "-", "k", "e", "y">>],
        [n \in {"OPENAI_API_KEY"} |-> <<"t", "e", "s", "t">>],
        [n \in {"TEST_MODE"} |-> <<"t", "r", "u", "e">>],
        [n \in {"TEST_MODE"} |-> <<"Y", "E", "S">>],
        [n \in {"TEST_MODE"} |-> <<"1">>],
        [n \in {"TEST_MODE", "OPENAI_API_KEY"} |->
            IF n = "TEST_MODE" THEN <<"f", "a", "l", "s", "e">>
            ELSE <<"s", "k", "-", "1">>]} :
        InitServingIn(env, DatabaseUp)

NextLive ==
    \/ \E s \in Slots, a \in {"chatbot", "chatbot-persistent"},
          m \in {"m1", "Code"}, t \in {None, "t1"} : InvokeStart(s, a, m, t)
    \/ \E s \in Slots, a \in {"data-analyst", "research-assistant"},
          m \in {"m1", "search"} : InvokeStart(s, a, m, None)
    \/ \E s \in Slots : LlmReturn(s, "r1")
    \/ \E s \in Slots, e \in ModelErrors : LlmRaises(s, e)
    \/ \E s \in Slots,
          tool_calls \in {<<"tavily_search_results_json">>,
                          <<"tavily_search_results_json",
                            "tavily_search_results_json">>,
                          <<"other_tool">>} :
          LlmAsksSearch(s, tool_calls)
    \/ \E s \in Slots, search_results \in {"", "found"} :
          SearchReturns(s, search_results)
    \/ \E s \in Slots : SearchRaises(s)
    \/ \E s \in Slots : MockReturn(s)
    \/ \E s \in Slots : NodeTimeout(s)
    \/ \E s \in Slots : Deliver(s)

\* What the code bounds: a call of the model ends at the latest with the
\* timeout of its client, and the mock computes its answer without waiting.
\* Nothing bounds search_tool.run, search_tool.invoke or the await of
\* ainvoke in invoke_assistant, so no step of a search is required to
\* happen.
SpecLive ==
    /\ InitLive
    /\ [][NextLive]_vars
    /\ \A s \in Slots : WF_vars(NodeTimeout(s))
    /\ \A s \in Slots : WF_vars(MockReturn(s))

\* C15: every request whose worker call was started is answered; a call
\* that ran into the timeout is answered 500 "Assistant invocation failed:
\* Request timed out." with no response text.
C15_InvokeCompletes ==
    /\ \A s \in Slots : (req[s].pc = "node") ~> (req[s].pc = "done")
    /\ [](\A s \in Slots :
            (req[s].pc = "done" /\ req[s].exc = APITimeoutError)
            => /\ req[s].resp = InvocationFailed(APITimeoutError)
               /\ req[s].resp.response = None)

----------------------------------------------------------------------------
(* The HTTP surface: bearer tokens and the routes of app.py *)

\* The Authorization header of a request: none, a malformed or expired
\* token, or a token POST /token issued for the demo user.
Tokens == {None, "invalid", "expired", "token-demo"}

\* The current user, or the error the dependency raises.
NoUser == [username |-> None, disabled |-> FALSE]
AuthResult(status, detail, user) ==
    [status |-> status, detail |-> detail, user |-> user]

\* auth.get_current_active_user: a request without bearer token is answered
\* 401 "Not authenticated", a token that does not validate 401 "Could not
\* validate credentials"; a valid token yields its user.
get_current_active_user(token) ==
    IF token = None
    THEN AuthResult(401, <<"Not authenticated">>, NoUser)
    ELSE IF token # "token-demo"
    THEN AuthResult(401, <<"Could not validate credentials">>, NoUser)
    ELSE AuthResult(200, <<>>, [username |-> "demo", disabled |-> FALSE])

\* (RequiresAuth_invokeOpen: invoke_assistant without the dependency.)
RequiresAuth_invokeOpen(endpoint) ==
    endpoint \in {"list", "info", "assistant_health", "users_me"}

\* The handlers declared with Depends(get_current_active_user).
RequiresAuth(endpoint) ==
    endpoint \in {"invoke", "list", "info", "assistant_health", "users_me"}

\* The dependencies of a route are resolved before its handler runs.
Authorize(endpoint, token) ==
    IF RequiresAuth(endpoint)
    THEN get_current_active_user(token)
    ELSE AuthResult(200, <<>>, NoUser)

HttpExchange(endpoint, token, id, status, body) ==
    [endpoint |-> endpoint, token |-> token, id |-> id, status |-> status,
     body |-> body]

\* The body of GET /: one entry per listed assistant.
available_assistants ==
    [id \in DOMAIN assistant_metadata |->
        [name |-> assistant_metadata[id].name,
         endpoint |-> <<"/assistants/", id, "/invoke">>,
         info_endpoint |-> <<"/assistants/", id>>,
         health_endpoint |-> <<"/assistants/", id, "/health">>,
         supports_streaming |-> assistant_metadata[id].supports_streaming,
         supports_persistence |-> assistant_metadata[id].supports_persistence]]

\* The body of GET /health.
HealthBody(assistant_health) ==
    [status |-> OverallStatus(assistant_health),
     assistants |-> KeysFrom(assistant_health, 1),
     assistant_health |-> assistant_health]


\* What a handler answers: a status with a body or with a detail.
Answer(status, body) == [status |-> status, body |-> body]

\* (get_assistant_info_lenient: a handler that answers an unknown id with
\* the metadata of the default chatbot.)
get_assistant_info_lenient(assistant_id) ==
    LET metadata == get_assistant_metadata(assistant_id)
    IN  IF metadata = NoMetadata
        THEN Answer(200, get_assistant_metadata("chatbot"))
        ELSE Answer(200, metadata)

\* GET /assistants/{assistant_id}
get_assistant_info(assistant_id) ==
    LET metadata == get_assistant_metadata(assistant_id)
    IN  IF metadata = NoMetadata
        THEN Answer(404, <<"Assistant ", assistant_id, " not found">>)
        ELSE Answer(200, metadata)

\* GET /assistants/{assistant_id}/health
check_assistant_health(assistant_id) ==
    LET health == health_check(assistants)
    IN  IF assistant_id \notin DOMAIN health
        THEN Answer(404, <<"Assistant ", assistant_id, " not found">>)
        ELSE Answer(200, health[assistant_id])

\* GET /assistants, /assistants/{id}, /assistants/{id}/health, /users/me,
\* /health and /: the dependency first, then the handler.
HttpGet(endpoint, token, id) ==
    /\ boot = "serving"
    /\ LET auth == Authorize(endpoint, token)
           metadata == get_assistant_metadata(id)
           assistant_health == health_check(assistants)
       IN  IF auth.status # 200
           THEN /\ http' = HttpExchange(endpoint, token, id, auth.status,
                                        auth.detail)
                /\ UNCHANGED <<world, environ, lookup, health_status, health_response>>
           ELSE CASE endpoint = "list" ->
                     /\ http' = HttpExchange(endpoint, token, id, 200,
                                             assistant_metadata)
                     /\ UNCHANGED <<world, environ, lookup, health_status, health_response>>
                  [] endpoint = "info" ->
                     /\ lookup' = [lookup EXCEPT !.metadata =
                            [called |-> TRUE, id |-> id, value |-> metadata]]
                     /\ http' = HttpExchange(endpoint, token, id,
                                     get_assistant_info(id).status,
                                     get_assistant_info(id).body)
                     /\ UNCHANGED <<world, environ, health_status, health_response>>
                  [] endpoint = "assistant_health" ->
                     /\ health_status' =
                          [returned |-> TRUE, value |-> assistant_health]
                     /\ http' = HttpExchange(endpoint, token, id,
                                     check_assistant_health(id).status,
                                     check_assistant_health(id).body)
                     /\ UNCHANGED <<world, environ, lookup, health_response>>
                  [] endpoint = "users_me" ->
                     /\ http' = HttpExchange(endpoint, token, id, 200,
                                             auth.user)
                     /\ UNCHANGED <<world, environ, lookup, health_status, health_response>>
                  [] endpoint = "health" ->
                     /\ health_response' = HealthBody(assistant_health)
                     /\ http' = HttpExchange(endpoint, token, id, 200,
                                             HealthBody(assistant_health))
                     /\ UNCHANGED <<world, environ, lookup, health_status>>
                  [] OTHER ->
                     /\ http' = HttpExchange(endpoint, token, id, 200,
                                             available_assistants)
                     /\ UNCHANGED <<world, environ, lookup, health_status, health_response>>
    /\ UNCHANGED <<world, environ, boot, build_error, assistants, assistant_metadata, store,
                   req, history, invocations, listed, call>>

\* The handler of invoke was entered; its answer is the request's.
Entered == 0

\* POST /assistants/{assistant_id}/invoke: the dependency first, then
\* invoke_assistant.
HttpInvoke(s, token, assistant_id, message, thread_id) ==
    LET auth == Authorize("invoke", token)
    IN  IF auth.status # 200
        THEN /\ boot = "serving"
             /\ http' = HttpExchange("invoke", token, assistant_id,
                                     auth.status, auth.detail)
             /\ UNCHANGED <<world, environ, boot, build_error, assistants,
                            assistant_metadata, store, req, history,
                            invocations, listed, health_status,
                            health_response, lookup, call>>
        ELSE /\ invoke_assistant(s, assistant_id, message, thread_id)
             /\ http' = HttpExchange("invoke", token, assistant_id, Entered,
                                     <<>>)
             /\ UNCHANGED call

NextAuth ==
    \/ \E token \in Tokens, id \in LookupIds,
          endpoint \in {"info", "assistant_health"} :
            HttpGet(endpoint, token, id)
    \/ \E token \in Tokens,
          endpoint \in {"list", "users_me", "health", "root"} :
            HttpGet(endpoint, token, None)
    \/ \E s \in Slots, token \in Tokens,
          a \in {"chatbot", "chatbot-invalid"} :
            HttpInvoke(s, token, a, "m1", None)
    \/ \E s \in Slots : NodeReturn(s, "r1")
    \/ \E s \in Slots, e \in ModelErrors : NodeRaise(s, e)
    \/ \E s \in Slots : Deliver(s)

SpecAuth == InitServing /\ [][NextAuth]_vars

\* The fields of the last exchange that name the request and its status.
HttpKey == <<http.endpoint, http.token, http.id, http.status>>

\* C19: on the assistants endpoints and on /users/me a request without a
\* valid bearer token is answered 401, whatever the assistant id; /health
\* and / are answered 200 with any token or none; the step that answers
\* 401 makes no lookup, no health check and no worker call and leaves every
\* request as it was.
C19_State ==
    /\ (/\ http.endpoint \in {"list", "info", "assistant_health", "invoke",
                              "users_me"}
        /\ http.token # "token-demo")
       => http.status = 401
    /\ http.endpoint \in {"health", "root"} => http.status = 200

C19_Step ==
    (HttpKey' # HttpKey /\ http'.status = 401)
    => /\ lookup' = lookup
       /\ health_status' = health_status
       /\ health_response' = health_response
       /\ req' = req
       /\ invocations' = invocations
       /\ store' = store

C19_UnauthorizedBeforeLookup == []C19_State /\ [][C19_Step]_vars

C19_Witness ==
    /\ http.endpoint = "invoke"
    /\ http.id = "chatbot-invalid"
    /\ http.token = None
    /\ http.status = 401
    /\ \A s \in Slots : req[s].resp.status # 404

----------------------------------------------------------------------------
(* Callers that add, remove or replace entries of a returned listing *)

\* (CopiesMapping_alias: return self.assistant_metadata, the registry's own
\* dict.)
CopiesMapping_alias == FALSE

\* list_assistants returns self.assistant_metadata.copy(): a dict object of
\* its own, whose keys are not the registry's keys.
CopiesMapping == TRUE

\* A dict the caller made, and the key it adds.
CallerObject == "caller-dict"
CallerDict == [Metadata("chatbot") EXCEPT !.name = "Replaced"]
AddedId == "added-assistant"

\* The dict a reference of a listing leads to.
Deref(ref) ==
    IF ref = CallerObject THEN CallerDict ELSE assistant_metadata[ref]

\* The content of a listing: each key with the dict its entry refers to.
Content(entries) == [id \in DOMAIN entries |-> Deref(entries[id])]

\* listing[id] = {...}: the caller adds or replaces an entry of the mapping
\* it holds.
CallerPutsEntry(id) ==
    /\ listed.held
    /\ IF CopiesMapping
       THEN /\ listed' = [listed EXCEPT
                    !.entries = (id :> CallerObject) @@ @]
            /\ UNCHANGED assistant_metadata
       ELSE /\ assistant_metadata' = (id :> CallerDict) @@ assistant_metadata
            /\ listed' = [listed EXCEPT !.entries = (id :> id) @@ @]
    /\ UNCHANGED <<world, environ, boot, build_error, assistants, store, req, history,
                   invocations, health_status, health_response, lookup,
                   http, call>>

\* del listing[id]: the caller removes an entry of the mapping it holds.
CallerRemovesEntry(id) ==
    /\ listed.held
    /\ id \in DOMAIN listed.entries
    /\ listed' = [listed EXCEPT
            !.entries = [k \in DOMAIN @ \ {id} |-> @[k]]]
    /\ IF CopiesMapping
       THEN UNCHANGED assistant_metadata
       ELSE assistant_metadata' =
               [k \in DOMAIN assistant_metadata \ {id} |->
                   assistant_metadata[k]]
    /\ UNCHANGED <<world, environ, boot, build_error, assistants, store, req, history,
                   invocations, health_status, health_response, lookup,
                   http, call>>

ListingIds == {"chatbot", "chatbot-persistent", "data-analyst", AddedId}

NextListing ==
    \/ ListAssistants
    \/ \E id \in ListingIds : CallerPutsEntry(id)
    \/ \E id \in ListingIds : CallerRemovesEntry(id)
    \/ \E id \in ListingIds : GetAssistantMetadata(id)

SpecListing == InitServing /\ [][NextListing]_vars

\* C21: whatever entries a caller adds to, removes from or replaces in a
\* mapping list_assistants returned, a call of list_assistants returns the
\* content every earlier call returned, and get_assistant_metadata returns
\* for every id what it returned before.
C21_ListingView ==
    [listing    |-> Content(list_assistants),
     descriptor |-> [id \in AssistantIds \cup {AddedId} |->
                        get_assistant_metadata(id)]]

C21_ListingIsDefensiveCopy ==
    /\ [][C21_ListingView' = C21_ListingView]_vars
    /\ []((lookup.metadata.called /\ lookup.metadata.id \in AssistantIds)
          => lookup.metadata.value = Metadata(lookup.metadata.id))

C21_Witness ==
    /\ listed.held
    /\ "chatbot" \notin DOMAIN listed.entries
    /\ AddedId \in DOMAIN listed.entries
    /\ "data-analyst" \in DOMAIN listed.entries
    /\ listed.entries["data-analyst"] = CallerObject
    /\ Content(listed.entries) # Content(list_assistants)
    /\ lookup.metadata.called
    /\ lookup.metadata.id = "chatbot"

----------------------------------------------------------------------------
(* The application from import to serving: build, then the GET routes *)

NextApp ==
    \/ \E failAt \in 0..Len(BuildOrder) : Build(failAt)
    \/ GetHealth
    \/ HealthCheck
    \/ \E token \in {None, "token-demo"}, id \in LookupIds,
          endpoint \in {"info", "assistant_health"} :
            HttpGet(endpoint, token, id)
    \/ \E token \in {None, "token-demo"},
          endpoint \in {"list", "health", "root"} :
            HttpGet(endpoint, token, None)

SpecApp == Init /\ [][NextApp]_vars

\* The ids of the six assistants, as the claim lists them.
SixAssistants ==
    {"chatbot", "chatbot-persistent", "code-assistant", "creative-writer",
     "data-analyst", "research-assistant"}

\* C22: in a serving process the graphs and the metadata are filed under
\* the same six ids, and the body of GET /health lists exactly these ids,
\* each once, in "assistants" and as the keys of "assistant_health".
C22_SameKeysEverywhere ==
    /\ boot = "serving" =>
          /\ DOMAIN assistants = DOMAIN assistant_metadata
          /\ DOMAIN assistants = SixAssistants
    /\ health_response.status # None =>
          /\ Range(health_response.assistants) = DOMAIN assistants
          /\ Len(health_response.assistants) = Cardinality(DOMAIN assistants)
          /\ DOMAIN health_response.assistant_health = DOMAIN assistants
          /\ DOMAIN health_response.assistant_health
                = DOMAIN assistant_metadata

C22_Witness ==
    /\ boot = "serving"
    /\ health_response.status = "healthy"
    /\ health_response.assistants = BuildOrder
    /\ http.endpoint = "health" /\ http.status = 200

----------------------------------------------------------------------------
(* The records of health_check *)

\* C23: every record health_check returned has status healthy or
\* unhealthy; its error is None exactly when the status is healthy, and an
\* unhealthy record carries the text of the exception the probe raised.
C23_RecordShape ==
    \A id \in DOMAIN health_status.value :
        LET record == health_status.value[id]
        IN  /\ record.status \in {"healthy", "unhealthy"}
            /\ (record.error = None) <=> (record.status = "healthy")
            /\ record.status = "unhealthy"
               => record.error = assistants[id].nodes
            /\ (record.status = "unhealthy") <=> ProbeRaises(assistants[id])

C23_Witness ==
    /\ health_status.returned
    /\ health_status.value["chatbot"].status = "unhealthy"
    /\ health_status.value["chatbot"].error = ""
    /\ health_status.value["data-analyst"].error = "nodes unavailable"
    /\ health_status.value["code-assistant"].status = "healthy"
    /\ assistants["code-assistant"].nodes = "absent"

----------------------------------------------------------------------------
(* graphs/test_echo_graph.py: the echo agent *)

\* The id scripts/test-echo-agent.py looks the echo agent up under.
EchoId == "test-echo"

\* The for loop of echo_agent_node over reversed(state["messages"]): the
\* last human message among the first n, <<>> when there is none.
RECURSIVE LastHuman(_, _)
LastHuman(messages, n) ==
    IF n = 0 THEN <<>>
    ELSE IF messages[n].type = "human" THEN <<messages[n]>>
    ELSE LastHuman(messages, n - 1)

\* echo_agent_node: a message object is truthy whatever its content, so an
\* empty human message is echoed too.  The f-string is kept as its parts.
echo_agent_node(state) ==
    LET last_human_message == LastHuman(state.messages, Len(state.messages))
        response_content ==
            IF last_human_message # <<>>
            THEN <<"Echo: ", last_human_message[1].content>>
            ELSE <<"Echo: No message to echo">>
    IN  [messages |-> state.messages \o <<AIMessage(response_content)>>,
         response |-> response_content]

NextEcho ==
    \/ \E s \in Slots, a \in {EchoId, "chatbot"}, m \in MessageValues :
          InvokeStart(s, a, m, None)
    \/ \E s \in Slots, c \in ModelReplies : NodeReturn(s, c)
    \/ \E s \in Slots, e \in ModelErrors : NodeRaise(s, e)
    \/ \E s \in Slots : Deliver(s)

SpecEcho == InitServing /\ [][NextEcho]_vars

\* C24: a request for the echo assistant is answered with the response
\* echo_agent_node returns on the request's message, "Echo: " followed by
\* the message, and with the echo assistant's id in the metadata.
C24_EchoThroughInvoke ==
    \A s \in Slots :
        (req[s].pc = "done" /\ req[s].assistant_id = EchoId)
        => /\ req[s].resp.status = 200
           /\ req[s].resp.assistant_id = EchoId
           /\ req[s].resp.response =
                echo_agent_node(
                    [messages |-> <<HumanMessage(req[s].message)>>,
                     response |-> None]).response

----------------------------------------------------------------------------
(* database.py: the checkpointer of the persistent chatbot *)

\* GraphManager() at import, with what create_checkpointer_context did in
\* the second block of _initialize_assistants put on record.
BuildWith ==
    /\ BuildTo(0)
    /\ call' = [fn |-> "create_checkpointer_context",
                arg |-> [settings |-> settings, world |-> world],
                result |-> create_checkpointer_context]

NextStore ==
    \/ BuildWith
    \/ \E s \in Slots, a \in {"chatbot", "chatbot-persistent"},
          t \in {None, "t1"} : InvokeStart(s, a, "m1", t)
    \/ \E s \in Slots : NodeReturn(s, "r1")
    \/ \E s \in Slots, e \in ModelErrors : NodeRaise(s, e)
    \/ \E s \in Slots : Deliver(s)

\* The environments the checkpointer is created in: TESTING and
\* USE_IN_MEMORY_DB unset, "true" in either case of the letters, and values
\* config.py does not read as true.
InitStore ==
    \E env \in
       {ProductionEnviron,
        InMemoryEnviron,
        ProductionEnviron @@ ("TESTING" :> <<"t", "r", "u", "e">>),
        ProductionEnviron @@ ("TESTING" :> <<"T", "R", "U", "E">>),
        ProductionEnviron @@ ("TESTING" :> <<"1">>),
        InMemoryEnviron @@ ("TESTING" :> <<"t", "r", "u", "e">>),
        ProductionEnviron @@ ("USE_IN_MEMORY_DB" :> <<"f", "a", "l", "s", "e">>)},
       w \in Worlds : InitIn(env, w)

SpecStore == InitStore /\ [][NextStore]_vars

\* C25: at every thread-scoped call of the persistent worker the connection
\* of the checkpointer compiled into it at build is not closed.
C25_CheckpointerOpenAtInvoke ==
    \A s \in Slots :
        (req[s].called /\ req[s].config # None)
        => get_assistant(req[s].assistant_id).conn # "closed"

\* C28: with TESTING or USE_IN_MEMORY_DB the context yields a MemorySaver
\* and PostgreSQL is not contacted; otherwise it yields a PostgresSaver,
\* a MemorySaver only when the postgres module cannot be imported, and a
\* failing connection is raised, which fails the build; a run that does not
\* raise yields exactly one store.
C28_CheckpointerChoice ==
    call.fn = "create_checkpointer_context" =>
        LET run == call.result
            in_memory == \/ call.arg.settings.TESTING
                         \/ call.arg.settings.USE_IN_MEMORY_DB
            importable == call.arg.world.importable
            reachable == call.arg.world.reachable
        IN  /\ in_memory => /\ run.yielded = <<"memory">>
                            /\ ~run.contacted
                            /\ run.raised = None
            /\ (~in_memory /\ importable /\ reachable)
               => run.yielded = <<"postgres">>
            /\ (~in_memory /\ run.yielded = <<"memory">>)
               <=> (~in_memory /\ ~importable)
            /\ (~in_memory /\ importable /\ ~reachable)
               => /\ run.raised = ConnectError
                  /\ run.yielded = <<>>
                  /\ boot = "failed"
                  /\ build_error = ConnectError
            /\ run.raised = None => Len(run.yielded) = 1
            /\ run.raised = None => boot = "serving"

C28_Witness ==
    /\ call.fn = "create_checkpointer_context"
    /\ ~call.arg.settings.TESTING /\ ~call.arg.settings.USE_IN_MEMORY_DB
    /\ call.arg.world.importable /\ ~call.arg.world.reachable
    /\ call.result.raised = ConnectError
    /\ boot = "failed"

----------------------------------------------------------------------------
(* Requests with an empty thread_id *)

\* C26: a request with thread_id "" takes the branch a request without
\* thread_id takes: the call carries no thread scope, also on
\* chatbot-persistent, two such requests for the same assistant and message
\* are at every stage in the same condition, and nothing is loaded from or
\* saved under the key "".
C26_EmptyThreadIdIsNoThreadId ==
    /\ store[""] = EmptyState
    /\ history[""] = <<>>
    /\ \A s \in Slots :
          (req[s].pc # "idle" /\ req[s].thread_id = "")
          => /\ ~Scoped(s)
             /\ req[s].config = None
             /\ req[s].prior = <<>>
             /\ req[s].pc = "node"
                => req[s].state.messages = <<HumanMessage(req[s].message)>>
    /\ \A s1, s2 \in Slots :
          (/\ req[s1].pc # "idle" /\ req[s2].pc # "idle"
           /\ req[s1].thread_id = "" /\ req[s2].thread_id = None
           /\ req[s1].assistant_id = req[s2].assistant_id
           /\ req[s1].message = req[s2].message)
          => /\ req[s1].called = req[s2].called
             /\ req[s1].config = req[s2].config
             /\ (req[s1].exc = CheckpointerConfigError)
                   <=> (req[s2].exc = CheckpointerConfigError)
             /\ (req[s1].pc = "node" /\ req[s2].pc = "node")
                => req[s1].state = req[s2].state

C26_Witness ==
    \E s1, s2 \in Slots :
        /\ req[s1].thread_id = "" /\ req[s1].called
        /\ req[s1].assistant_id = "chatbot-persistent"
        /\ req[s2].thread_id = "" /\ req[s2].pc = "done"
        /\ req[s2].assistant_id = "chatbot" /\ req[s2].resp.status = 200

----------------------------------------------------------------------------
(* The three routes under /assistants/{assistant_id} *)

\* A serving process in which the graph of data-analyst answers the probe
\* in any way.
InitRoutes ==
    /\ environ = InMemoryEnviron
    /\ world = DatabaseUp
    /\ boot = "serving"
    /\ build_error = None
    /\ \E nodes \in NodesBehaviours :
          assistants =
              [AssistantsAfter(Len(BuildOrder)) EXCEPT
                  !["data-analyst"].nodes = nodes]
    /\ assistant_metadata = MetadataAfter(Len(BuildOrder))
    /\ store = [t \in StoreKeys |-> EmptyState]
    /\ req = [s \in Slots |-> IdleReq]
    /\ history = [t \in StoreKeys |-> <<>>]
    /\ invocations = 0
    /\ listed = [held |-> FALSE, entries |-> <<>>]
    /\ health_status = [returned |-> FALSE, value |-> <<>>]
    /\ health_response = NoHealth
    /\ lookup = NoLookup
    /\ http = NoHttp
    /\ call = NoCall

RouteIds == {"chatbot", "data-analyst", "chatbot-invalid"}

NextRoutes ==
    \/ \E id \in RouteIds, endpoint \in {"info", "assistant_health"} :
          HttpGet(endpoint, "token-demo", id)
    \/ HttpGet("health", None, None)
    \/ \E s \in Slots, a \in {"chatbot", "chatbot-invalid"} :
          HttpInvoke(s, "token-demo", a, "m1", None)
    \/ \E s \in Slots : NodeReturn(s, "r1")
    \/ \E s \in Slots, e \in ModelErrors : NodeRaise(s, e)
    \/ \E s \in Slots : Deliver(s)

SpecRoutes == InitRoutes /\ [][NextRoutes]_vars

\* C27: for every id the info route answers 404 exactly when the health
\* route does, and an invoke request is answered 404 exactly when they do;
\* the record the health route returns for an id is the entry of that id in
\* assistant_health of GET /health, computed in the same state and as last
\* answered.
C27_RoutesAgree ==
    /\ \A id \in RouteIds \cup AssistantIds :
          /\ (get_assistant_info(id).status = 404)
                <=> (check_assistant_health(id).status = 404)
          /\ check_assistant_health(id).status = 200
             => check_assistant_health(id).body
                   = HealthBody(health_check(assistants)).assistant_health[id]
    /\ \A s \in Slots :
          req[s].pc # "idle"
          => ((req[s].pc = "done" /\ req[s].resp.status = 404)
                <=> (get_assistant_info(req[s].assistant_id).status = 404))
    /\ (/\ http.endpoint \in {"info", "assistant_health"}
        /\ http.token = "token-demo")
       => (http.status = 404
             <=> get_assistant_info(http.id).status = 404)
    /\ (/\ http.endpoint = "assistant_health" /\ http.status = 200
        /\ health_response.status # None)
       => http.body = health_response.assistant_health[http.id]

C27_Witness ==
    /\ http.endpoint = "assistant_health" /\ http.status = 200
    /\ http.id = "data-analyst" /\ http.body.status = "unhealthy"
    /\ health_response.status = "degraded"
    /\ \E s \in Slots :
          /\ req[s].pc = "done" /\ req[s].resp.status = 404
          /\ req[s].assistant_id = "chatbot-invalid"

----------------------------------------------------------------------------
(* The nodes of the data analyst and research assistant graphs *)

\* What a call of the model (chain.invoke) does: it raises, or it returns a
\* message with a content and a list of tool calls, named by their tools.
LlmReply(content, tool_calls) ==
    [raised |-> None, content |-> content, tool_calls |-> tool_calls]
LlmRaise == [raised |-> "model unavailable", content |-> None, tool_calls |-> <<>>]
LlmToolCall == LlmReply("", <<"tavily_search_results_json">>)
LlmOtherToolCall == LlmReply("", <<"other_tool">>)

\* What a search does: it raises, or it returns None, "" or a text.
SearchRaise == [raised |-> SearchError, text |-> None]
SearchFound == [raised |-> None, text |-> "found"]
SearchOutcomes ==
    {SearchRaise, SearchFound, [raised |-> None, text |-> None],
     [raised |-> None, text |-> ""]}

\* What a node does: it raises, or it returns the new values of the state.
NodeRaised(e) == [raised |-> e, value |-> EmptyState]
NodeReturned(messages, response) ==
    [raised |-> None,
     value |-> [messages |-> messages, response |-> response]]

\* The body shared by the nodes that call the model once: the answer is
\* appended to the messages and is the response.
data_analyst_node(state, llm) ==
    IF llm.raised # None THEN NodeRaised(llm.raised)
    ELSE NodeReturned(state.messages \o <<AIMessage(llm.content)>>,
                      llm.content)

knowledge_research_node(state, llm) ==
    IF llm.raised # None THEN NodeRaised(llm.raised)
    ELSE NodeReturned(state.messages \o <<AIMessage(llm.content)>>,
                      llm.content)

\* (search_and_research_node_strict: a node whose search is outside the
\* try block.)
search_and_research_node_strict(state, search, llm_knowledge, llm_search) ==
    IF state.messages = <<>> \/ search.raised # None
    THEN NodeRaised(SearchError)
    ELSE IF Truthy(search.text)
    THEN IF llm_search.raised # None THEN NodeRaised(llm_search.raised)
         ELSE NodeReturned(
                  state.messages \o <<AIMessage(llm_search.content)>>,
                  llm_search.content)
    ELSE knowledge_research_node(state, llm_knowledge)

\* search_and_research_node: the try covers state["messages"][-1] and the
\* search; llm_knowledge and llm_search are what the model does with the
\* knowledge prompt and with the prompt that carries the search results.
search_and_research_node(state, search, llm_knowledge, llm_search) ==
    IF state.messages = <<>> \/ search.raised # None
    THEN knowledge_research_node(state, llm_knowledge)
    ELSE IF Truthy(search.text)
    THEN IF llm_search.raised # None THEN NodeRaised(llm_search.raised)
         ELSE NodeReturned(
                  state.messages \o <<AIMessage(llm_search.content)>>,
                  llm_search.content)
    ELSE knowledge_research_node(state, llm_knowledge)

\* search_tool.invoke runs only for a tool call named after the search
\* tool.
CallsSearch(tool_calls) ==
    \E i \in 1..Len(tool_calls) : tool_calls[i] = "tavily_search_results_json"

\* The for loop over result.tool_calls: one ToolMessage per call of the
\* search tool.
RECURSIVE ToolMessages(_, _)
ToolMessages(tool_calls, search) ==
    IF tool_calls = <<>> THEN <<>>
    ELSE (IF Head(tool_calls) = "tavily_search_results_json"
          THEN <<ToolMessage(search.text)>> ELSE <<>>)
         \o ToolMessages(Tail(tool_calls), search)

\* (data_analyst_with_search_node_firstAnswer: a tool path that returns
\* the answer that asked for the tools as the response.)
data_analyst_with_search_node_firstAnswer(state, key, search, llm_analyze, llm_tools, llm_final) ==
    IF ~Truthy(key) THEN data_analyst_node(state, llm_analyze)
    ELSE IF llm_tools.raised # None THEN NodeRaised(llm_tools.raised)
    ELSE IF llm_tools.tool_calls # <<>>
    THEN IF CallsSearch(llm_tools.tool_calls) /\ search.raised # None
         THEN NodeRaised(search.raised)
         ELSE LET updated_messages ==
                      state.messages \o <<AIMessage(llm_tools.content)>>
                      \o ToolMessages(llm_tools.tool_calls, search)
              IN  IF llm_final.raised # None
                  THEN NodeRaised(llm_final.raised)
                  ELSE NodeReturned(
                           updated_messages
                               \o <<AIMessage(llm_final.content)>>,
                           llm_tools.content)
    ELSE NodeReturned(state.messages \o <<AIMessage(llm_tools.content)>>,
                      llm_tools.content)

\* data_analyst_with_search_node: key is os.getenv("TAVILY_API_KEY");
\* llm_analyze, llm_tools and llm_final are what the model does with the
\* analyze-only prompt, with the tools bound, and with the final prompt.
data_analyst_with_search_node(state, key, search, llm_analyze, llm_tools, llm_final) ==
    IF ~Truthy(key) THEN data_analyst_node(state, llm_analyze)
    ELSE IF llm_tools.raised # None THEN NodeRaised(llm_tools.raised)
    ELSE IF llm_tools.tool_calls # <<>>
    THEN IF CallsSearch(llm_tools.tool_calls) /\ search.raised # None
         THEN NodeRaised(search.raised)
         ELSE LET updated_messages ==
                      state.messages \o <<AIMessage(llm_tools.content)>>
                      \o ToolMessages(llm_tools.tool_calls, search)
              IN  IF llm_final.raised # None
                  THEN NodeRaised(llm_final.raised)
                  ELSE NodeReturned(
                           updated_messages
                               \o <<AIMessage(llm_final.content)>>,
                           llm_final.content)
    ELSE NodeReturned(state.messages \o <<AIMessage(llm_tools.content)>>,
                      llm_tools.content)


\* The states the nodes are called with: no message, a first message, and
\* a conversation that ends with an empty message.
NodeStates ==
    {EmptyState,
     [messages |-> <<HumanMessage("m1")>>, response |-> None],
     [messages |-> <<HumanMessage("m1"), AIMessage("r1"), HumanMessage("")>>,
      response |-> None]}

\* A node function is called with a state; the call and what it did are
\* kept in call.
CallChatbotNode(state, response_content) ==
    /\ call' = [fn |-> "chatbot_node", arg |-> <<state>>,
                result |-> LET r == chatbot_node(state, response_content)
                           IN  NodeReturned(r.messages, r.response)]
    /\ UNCHANGED <<world, environ, boot, build_error, assistants, assistant_metadata, store,
                   req, history, invocations, listed, health_status,
                   health_response, lookup, http>>

CallEchoNode(state) ==
    /\ call' = [fn |-> "echo_agent_node", arg |-> <<state>>,
                result |-> LET r == echo_agent_node(state)
                           IN  NodeReturned(r.messages, r.response)]
    /\ UNCHANGED <<world, environ, boot, build_error, assistants, assistant_metadata, store,
                   req, history, invocations, listed, health_status,
                   health_response, lookup, http>>

CallDataAnalystNode(state, llm) ==
    /\ call' = [fn |-> "data_analyst_node", arg |-> <<state, llm>>,
                result |-> data_analyst_node(state, llm)]
    /\ UNCHANGED <<world, environ, boot, build_error, assistants, assistant_metadata, store,
                   req, history, invocations, listed, health_status,
                   health_response, lookup, http>>

CallDataAnalystWithSearchNode(state, key, search, llm_analyze, llm_tools, llm_final) ==
    /\ call' = [fn |-> "data_analyst_with_search_node",
                arg |-> <<state, key, search, llm_analyze, llm_tools,
                          llm_final>>,
                result |-> data_analyst_with_search_node(
                               state, key, search, llm_analyze, llm_tools,
                               llm_final)]
    /\ UNCHANGED <<world, environ, boot, build_error, assistants, assistant_metadata, store,
                   req, history, invocations, listed, health_status,
                   health_response, lookup, http>>

CallKnowledgeResearchNode(state, llm) ==
    /\ call' = [fn |-> "knowledge_research_node", arg |-> <<state, llm>>,
                result |-> knowledge_research_node(state, llm)]
    /\ UNCHANGED <<world, environ, boot, build_error, assistants, assistant_metadata, store,
                   req, history, invocations, listed, health_status,
                   health_response, lookup, http>>

CallSearchAndResearchNode(state, search, llm_knowledge, llm_search) ==
    /\ call' = [fn |-> "search_and_research_node",
                arg |-> <<state, search, llm_knowledge, llm_search>>,
                result |-> search_and_research_node(
                               state, search, llm_knowledge, llm_search)]
    /\ UNCHANGED <<world, environ, boot, build_error, assistants, assistant_metadata, store,
                   req, history, invocations, listed, health_status,
                   health_response, lookup, http>>

\* What the model does in the calls below: one of two answers or a raise
\* for the knowledge-only and analyze-only prompts, a fixed answer for the
\* prompt with the search results and for the final prompt, and for the
\* model with the tools bound an answer, a call of a tool or a raise.
LlmAnswer1 == LlmReply("r1", <<>>)
LlmAnswer2 == LlmReply("r2", <<>>)
LlmAnswer3 == LlmReply("r3", <<>>)
PlainOutcomes == {LlmAnswer1, LlmRaise}
ToolOutcomes == {LlmAnswer2, LlmToolCall, LlmOtherToolCall, LlmRaise}

NextNodes ==
    \/ \E state \in NodeStates \ {EmptyState}, c \in ModelReplies :
          CallChatbotNode(state, c)
    \/ \E state \in NodeStates : CallEchoNode(state)
    \/ \E state \in NodeStates \ {EmptyState}, llm \in PlainOutcomes :
          CallDataAnalystNode(state, llm)
    \/ \E state \in NodeStates \ {EmptyState}, key \in {None, "", "tvly-key"},
          search \in {SearchRaise, SearchFound},
          llm_tools \in ToolOutcomes :
          CallDataAnalystWithSearchNode(state, key, search, LlmAnswer1,
                                        llm_tools, LlmAnswer3)
    \/ \E state \in NodeStates, llm \in PlainOutcomes :
          CallKnowledgeResearchNode(state, llm)
    \/ \E state \in NodeStates, search \in SearchOutcomes,
          llm_knowledge \in PlainOutcomes :
          CallSearchAndResearchNode(state, search, llm_knowledge, LlmAnswer2)
    \/ \E s \in Slots : InvokeStart(s, "chatbot-persistent", "m1", "t1")
    \/ \E s \in Slots : NodeReturn(s, "r1")
    \/ \E s \in Slots, e \in ModelErrors : NodeRaise(s, e)
    \/ \E s \in Slots : Deliver(s)

SpecNodes == InitServing /\ [][NextNodes]_vars

NodeNames ==
    {"chatbot_node", "echo_agent_node", "data_analyst_node",
     "data_analyst_with_search_node", "knowledge_research_node",
     "search_and_research_node"}

\* An invocation with a thread_id completes in this step: the node returned
\* and invoke_assistant returns its AssistantResponse.
C29_Completes(s) ==
    /\ req[s].pc = "node"
    /\ req[s].config # None
    /\ req'[s].pc = "done"
    /\ req'[s].resp.status = 200

\* C29: what a node returns has the messages it was given as a prefix and
\* ends with an AI message whose content is the returned response; and when
\* an invocation with a thread_id completes, the thread's stored messages
\* end with the request's human message followed by an AI message whose
\* content is the response text.
C29_NodesAppendTheAnswer ==
    /\ [](call.fn \in NodeNames /\ call.result.raised = None
          => LET input == call.arg[1].messages
                 output == call.result.value.messages
             IN  /\ Len(output) > Len(input)
                 /\ SubSeq(output, 1, Len(input)) = input
                 /\ output[Len(output)] =
                        AIMessage(call.result.value.response))
    /\ [][\A s \in Slots :
            C29_Completes(s)
            => LET stored == store'[CheckpointKey(req[s].config)].messages
                   n == Len(stored)
               IN  /\ n >= 2
                   /\ stored[n - 1] = HumanMessage(req[s].message)
                   /\ stored[n] = AIMessage(req'[s].resp.response)]_vars

C29_Witness ==
    /\ call.fn = "data_analyst_with_search_node"
    /\ call.result.raised = None
    /\ Len(call.result.value.messages) = Len(call.arg[1].messages) + 3
    /\ \E s \in Slots :
          /\ req[s].pc = "done"
          /\ req[s].resp.status = 200
          /\ req[s].config = "t1"
          /\ store["t1"].messages =
                <<HumanMessage(req[s].message),
                  AIMessage(req[s].resp.response)>>

\* C30: when the search raises or returns nothing, search_and_research_node
\* does what knowledge_research_node does on the same state, and without a
\* TAVILY_API_KEY data_analyst_with_search_node does what data_analyst_node
\* does on the same state.
C30_FallbackIsTheKnowledgeNode ==
    /\ (call.fn = "search_and_research_node"
        /\ (call.arg[2].raised # None \/ ~Truthy(call.arg[2].text)))
       => call.result = knowledge_research_node(call.arg[1], call.arg[3])
    /\ (call.fn = "data_analyst_with_search_node" /\ ~Truthy(call.arg[2]))
       => call.result = data_analyst_node(call.arg[1], call.arg[4])

C30_Witness ==
    \/ /\ call.fn = "search_and_research_node"
       /\ call.arg[2].raised = SearchError
       /\ call.arg[4] = LlmAnswer2
       /\ call.result.raised = None
       /\ call.result.value.response = "r1"
    \/ /\ call.fn = "data_analyst_with_search_node"
       /\ call.arg[2] = None
       /\ call.arg[5] = LlmToolCall
       /\ call.result.raised = None
       /\ call.result.value.response = "r1"

====
